---- MODULE Spec2Model ----
(***************************************************************************)
(* Baked queries (lib/sqlalchemy/ext/baked.py): BakedQuery builds a cache  *)
(* key from the code locations of its step functions, Result iterates a    *)
(* BakedQuery against a session through a plan cache ("bakery").           *)
(*                                                                         *)
(* Python values that can appear inside a cache key are written as strings *)
(* with a type prefix, so that Python's == on them is TLA+ equality:       *)
(*   "s:<text>" a str, "i:<n>" an int, "o:<name>" any other hashable.      *)
(***************************************************************************)
EXTENDS Integers, Sequences, FiniteSets, TLC

VARIABLES bqs, lists, hist, results, bakery, lastOp, calls, stmts

vars == <<bqs, lists, hist, results, bakery, lastOp, calls, stmts>>

\* Bounds of the model.
MaxObjs == 3
MaxSteps == 3
MaxResults == 1
\* The class-level bakery is LRUCache(1000); the model keeps this many entries.
LRUCapacity == 1
\* A call that would leave more entries than this in a cache is not made.
MaxEntries == 2
\* The tighter bounds of the specifications Spec and SpecKey.
MaxRunObjs == 2
MaxRunSteps == 2
MaxRunCreates == 1
\* The statement objects all compilations together may make.
MaxStmts == 6

NoneVal == "None"
Sessions == {"s1", "s2"}
GlobalBakery == "global"
LocalBakery == "local"
CacheNames == {GlobalBakery, LocalBakery}

EmptyMap == [x \in {} |-> 0]

-----------------------------------------------------------------------------
(* Step functions.  A function object is named by the lambda literal that   *)
(* made it.  closureA and closureB are two function objects made by ONE     *)
(* literal, lambda q: q.join(subq) at test_baked.py:371, which closes over  *)
(* a subquery built before it: they have one code object, so one            *)
(* (co_filename, co_firstlineno).  closureA captured the subquery of the    *)
(* test (users with more than two addresses), closureB one that selects     *)
(* the users with fewer than two.  setupEq/setupNull are the two behaviours *)
(* of the closure setup of Result._load_on_ident (baked.py:230): the        *)
(* identity value compared with =, or with IS NULL.  fSubq2 is the lambda   *)
(* of test_baked.py:335 written with two options, subqueryload of           *)
(* User.addresses and of User.orders.  seedAddressUser is the lambda of     *)
(* test_baked.py:187 over the class mapped to users outer join addresses,   *)
(* with the primary key (users.id, addresses.id); setupEqEq .. setupNullNull*)
(* are the behaviours of the closure setup for its two key columns.         *)

(* lazySeed .. lazyFilter are the lambdas of BakedLazyLoader._emit_lazyload. *)
(* fSubqChain is the lambda of test_baked.py:335 written with a chain of    *)
(* options, subqueryload(User.orders).subqueryload(Order.items): the query  *)
(* that loads the orders has a subquery loader of its own.                  *)
(* fPopulate is a caller's lambda q: q.populate_existing(), a step the      *)
(* tests of the repository do not have; its line is one no other lambda has.*)

LazyFns == {"lazySeed", "lazyAdapt", "lazySecondary", "lazyNoAutoflush",
            "lazyPath", "lazyOptions", "lazyOrderBy", "lazyRev", "lazyFilter"}

InternalFns == {"bakeLambda", "unbakeLambda", "firstSlice",
                "setupEq", "setupNull",
                "setupEqEq", "setupEqNull", "setupNullEq", "setupNullNull"}
               \cup LazyFns

FnFile(fn) == IF fn \in InternalFns THEN "s:baked.py" ELSE "s:test_baked.py"

FnLine(fn) ==
    CASE fn = "seedUsers"    -> "i:273"
      [] fn = "fById"        -> "i:235"
      [] fn = "fNotJack"     -> "i:282"
      [] fn = "fJack"        -> "i:290"
      [] fn = "fCount"       -> "i:293"
      [] fn = "fSubq"        -> "i:335"
      [] fn = "fSubq2"       -> "i:335"
      [] fn = "closureA"     -> "i:371"
      [] fn = "closureB"     -> "i:371"
      [] fn = "bakeLambda"   -> "i:127"
      [] fn = "unbakeLambda" -> "i:140"
      [] fn = "firstSlice"   -> "i:192"
      [] fn = "setupEq"      -> "i:230"
      [] fn = "setupNull"    -> "i:230"
      [] fn = "setupEqEq"    -> "i:230"
      [] fn = "setupEqNull"  -> "i:230"
      [] fn = "setupNullEq"  -> "i:230"
      [] fn = "setupNullNull" -> "i:230"
      [] fn = "seedAddressUser" -> "i:187"
      [] fn = "lazySeed"     -> "i:292"
      [] fn = "lazyAdapt"    -> "i:295"
      [] fn = "lazySecondary" -> "i:303"
      [] fn = "lazyNoAutoflush" -> "i:310"
      [] fn = "lazyPath"     -> "i:315"
      [] fn = "lazyOptions"  -> "i:321"
      [] fn = "lazyOrderBy"  -> "i:329"
      [] fn = "lazyRev"      -> "i:339"
      [] fn = "lazyFilter"   -> "i:350"
      [] fn = "fPopulate"    -> "i:900"
      [] fn = "fSubqChain"   -> "i:335"

\* What the function does to the query it is given (the body of the lambda).
FnOp(fn) ==
    CASE fn = "seedUsers"    -> "users"
      [] fn = "fById"        -> "by_id"
      [] fn = "fNotJack"     -> "not_jack"
      [] fn = "fJack"        -> "jack"
      [] fn = "fCount"       -> "count"
      [] fn = "fSubq"        -> "subq_addresses"
      [] fn = "fSubq2"       -> "subq_two"
      [] fn = "closureA"     -> "join_gt2"
      [] fn = "closureB"     -> "join_lt2"
      [] fn = "bakeLambda"   -> "nested"
      [] fn = "unbakeLambda" -> "nested"
      [] fn = "firstSlice"   -> "slice01"
      [] fn = "setupEq"      -> "pk_eq"
      [] fn = "setupNull"    -> "pk_is_null"
      [] fn = "setupEqEq"    -> "pk2_eq_eq"
      [] fn = "setupEqNull"  -> "pk2_eq_null"
      [] fn = "setupNullEq"  -> "pk2_null_eq"
      [] fn = "setupNullNull" -> "pk2_null_null"
      [] fn = "seedAddressUser" -> "address_users"
      [] fn = "lazySeed"     -> "addresses"
      [] fn = "lazyAdapt"    -> "adapt_no_eagers"
      [] fn = "lazySecondary" -> "select_from"
      [] fn = "lazyNoAutoflush" -> "autoflush_off"
      [] fn = "lazyPath"     -> "current_path"
      [] fn = "lazyOptions"  -> "options"
      [] fn = "lazyOrderBy"  -> "order_by"
      [] fn = "lazyRev"      -> "rev_options"
      [] fn = "lazyFilter"   -> "lazy_clause"
      [] fn = "fPopulate"    -> "populate_existing"
      [] fn = "fSubqChain"   -> "subq_chain"

-----------------------------------------------------------------------------
(* BakedQuery: the cache key.                                               *)

\* fn.func_code.co_filename, fn.func_code.co_firstlineno
Token(fn) == <<FnFile(fn), FnLine(fn)>>

UpdateKeyNoArgs(key, fn, args) == key \o Token(fn)

InitialKeyTokenFirst(fn, args) == Token(fn) \o args

\* BakedQuery._update_cache_key: self._cache_key += (file, line) + args
UpdateCacheKey(key, fn, args) == key \o Token(fn) \o args

\* BakedQuery.__init__, the key: tuple(args) if args else (), then the token.
InitialKey(fn, args) ==
    UpdateCacheKey(IF args # <<>> THEN args ELSE <<>>, fn, <<>>)

\* BakedQuery.__init__, the bakery: the one given, else the class-level one.
InitialBakery(b) == IF b # NoneVal THEN b ELSE GlobalBakery

-----------------------------------------------------------------------------
(* The heap.  bqs[o] is a BakedQuery object: steps is a reference to a      *)
(* Python list held in lists, _cache_key a tuple (a value), _bakery a       *)
(* reference to a cache, _spoiled a flag.  hist[o] records the calls the    *)
(* object was built by: <<fn, args>> of the constructor and of every        *)
(* add_criteria / with_criteria since.                                      *)

Objs == 1..Len(bqs)
Steps(o) == lists[bqs[o].steps]

CloneAliasSteps(o) ==
    [obj |-> [steps |-> bqs[o].steps, key |-> bqs[o].key,
              bakery |-> bqs[o].bakery, spoiled |-> bqs[o].spoiled],
     lists |-> lists]

CloneDropKey(o) ==
    [obj |-> [steps |-> Len(lists) + 1, key |-> <<>>,
              bakery |-> bqs[o].bakery, spoiled |-> bqs[o].spoiled],
     lists |-> Append(lists, lists[bqs[o].steps])]

\* BakedQuery._clone: a new object with the same key, a copy of the list of
\* steps, the same bakery and the same flag.  Gives the object and the heap
\* of lists with the new list in it.
Clone(o) ==
    [obj |-> [steps |-> Len(lists) + 1, key |-> bqs[o].key,
              bakery |-> bqs[o].bakery, spoiled |-> bqs[o].spoiled],
     lists |-> Append(lists, lists[bqs[o].steps])]

\* BakedQuery.add_criteria on an object value b over a heap of lists ls.
AddCriteriaTo(b, ls, fn, args) ==
    [obj |-> [b EXCEPT !.key = UpdateCacheKey(b.key, fn, args)],
     lists |-> [ls EXCEPT ![b.steps] = Append(@, fn)]]

\* The observation of the last call: what was called, on what, what it
\* returned and what it did on the way.
\* obj, ret and res are object numbers (0: none), val a returned row (0: None),
\* bound the parameters an identity lookup bound, ident its identity, lazy
\* what a lazy load was called with and warn whether it warned, names the
\* keywords an exception names.
NoLazy ==
    [prop |-> NoneVal, use_get |-> FALSE, uselist |-> FALSE,
     secondary |-> FALSE, order_by |-> FALSE, revs |-> 0,
     bake_queries |-> FALSE, pending |-> FALSE, no_autoflush |-> FALSE,
     load_path |-> FALSE, load_options |-> FALSE, param |-> 0,
     session |-> NoneVal]

Op(name, obj, ret) ==
    [op |-> name, obj |-> obj, ret |-> ret, res |-> 0, invoked |-> <<>>,
     compiles |-> 0, reads |-> 0, writes |-> 0, hit |-> FALSE, rows |-> <<>>,
     val |-> 0, ctx |-> <<>>, exc |-> NoneVal, key |-> <<>>,
     bound |-> EmptyMap, ident |-> <<>>, lazy |-> NoLazy, warn |-> FALSE,
     names |-> {}]

-----------------------------------------------------------------------------
(* Building BakedQuery objects.                                             *)

\* BakedQuery(initial_fn, args, bakery)
Create(fn, args, b) ==
    /\ Len(bqs) < MaxObjs
    /\ bqs' = Append(bqs, [steps |-> Len(lists) + 1,
                           key |-> InitialKey(fn, args),
                           bakery |-> InitialBakery(b),
                           spoiled |-> FALSE])
    /\ lists' = Append(lists, <<fn>>)
    /\ hist' = Append(hist, <<<<fn, args>>>>)
    /\ lastOp' = Op("create", Len(bqs) + 1, Len(bqs) + 1)
    /\ UNCHANGED <<results, bakery, calls, stmts>>

\* bq.add_criteria(fn, *args)
AddCriteria(o, fn, args) ==
    /\ Len(Steps(o)) < MaxSteps
    /\ LET r == AddCriteriaTo(bqs[o], lists, fn, args)
       IN /\ bqs' = [bqs EXCEPT ![o] = r.obj]
          /\ lists' = r.lists
    /\ hist' = [hist EXCEPT ![o] = Append(@, <<fn, args>>)]
    /\ lastOp' = Op("add_criteria", o, o)
    /\ UNCHANGED <<results, bakery, calls, stmts>>

\* bq += other: a tuple is (fn, arg, ...), anything else is the function.
IAdd(o, isTuple, fn, args) ==
    /\ Len(Steps(o)) < MaxSteps
    /\ isTuple \/ args = <<>>
    /\ LET r == IF isTuple
                THEN AddCriteriaTo(bqs[o], lists, fn, args)
                ELSE AddCriteriaTo(bqs[o], lists, fn, <<>>)
       IN /\ bqs' = [bqs EXCEPT ![o] = r.obj]
          /\ lists' = r.lists
    /\ hist' = [hist EXCEPT ![o] = Append(@, <<fn, args>>)]
    /\ lastOp' = Op("iadd", o, o)
    /\ UNCHANGED <<results, bakery, calls, stmts>>

\* bq.with_criteria(fn, *args): self._clone().add_criteria(fn, *args)
WithCriteria(o, fn, args) ==
    /\ Len(bqs) < MaxObjs
    /\ Len(Steps(o)) < MaxSteps
    /\ LET c == Clone(o)
           r == AddCriteriaTo(c.obj, c.lists, fn, args)
       IN /\ bqs' = Append(bqs, r.obj)
          /\ lists' = r.lists
    /\ hist' = Append(hist, Append(hist[o], <<fn, args>>))
    /\ lastOp' = Op("with_criteria", o, Len(bqs) + 1)
    /\ UNCHANGED <<results, bakery, calls, stmts>>

\* bq + other
Add(o, isTuple, fn, args) ==
    /\ Len(bqs) < MaxObjs
    /\ Len(Steps(o)) < MaxSteps
    /\ isTuple \/ args = <<>>
    /\ LET c == Clone(o)
           r == IF isTuple
                THEN AddCriteriaTo(c.obj, c.lists, fn, args)
                ELSE AddCriteriaTo(c.obj, c.lists, fn, <<>>)
       IN /\ bqs' = Append(bqs, r.obj)
          /\ lists' = r.lists
    /\ hist' = Append(hist, Append(hist[o], <<fn, args>>))
    /\ lastOp' = Op("add", o, Len(bqs) + 1)
    /\ UNCHANGED <<results, bakery, calls, stmts>>

SpoilToggle(b) == [b EXCEPT !.spoiled = ~@]

\* BakedQuery.spoil, on the object value.
SpoilObj(b) == [b EXCEPT !.spoiled = TRUE]

\* bq.spoil()
Spoil(o) ==
    /\ bqs' = [bqs EXCEPT ![o] = SpoilObj(bqs[o])]
    /\ lastOp' = Op("spoil", o, o)
    /\ UNCHANGED <<lists, hist, results, bakery, calls, stmts>>

-----------------------------------------------------------------------------
(* Result: a BakedQuery, a session and a dict of parameters.                *)

Results == 1..Len(results)
ParamVals == {7, 8}
\* The dicts a caller passes: {}, {"id": 7}, {"id": 8}.
ParamDicts == {EmptyMap} \cup {[k \in {"id"} |-> v] : v \in ParamVals}

DictReplace(d, e) == e

\* dict.update
DictUpdate(d, e) ==
    [k \in DOMAIN d \cup DOMAIN e |-> IF k \in DOMAIN e THEN e[k] ELSE d[k]]

\* bq.for_session(session), bq(session): Result(bq, session), _params = {}
ForSession(o, s) ==
    /\ Len(results) < MaxResults
    /\ results' = Append(results, [bq |-> o, session |-> s, params |-> EmptyMap])
    /\ lastOp' = Op("for_session", o, Len(results) + 1)
    /\ UNCHANGED <<bqs, lists, hist, bakery, calls, stmts>>

ParamsUpdatesThenRaises(r, args, kw) ==
    /\ results' = [results EXCEPT ![r].params = DictUpdate(@, kw)]
    /\ lastOp' = IF Len(args) > 1
                 THEN [Op("params", results[r].bq, 0) EXCEPT !.exc = "ArgumentError"]
                 ELSE Op("params", results[r].bq, r)
    /\ UNCHANGED <<bqs, lists, hist, bakery, calls, stmts>>

\* result.params(*args, **kw): one positional dict is merged into kw, more
\* than one raises ArgumentError, then self._params.update(kw).
Params(r, args, kw) ==
    /\ IF Len(args) = 1
       THEN /\ results' = [results EXCEPT ![r].params =
                               DictUpdate(@, DictUpdate(kw, args[1]))]
            /\ lastOp' = Op("params", results[r].bq, r)
       ELSE IF Len(args) > 0
       THEN /\ results' = results
            /\ lastOp' = [Op("params", results[r].bq, 0)
                              EXCEPT !.exc = "ArgumentError"]
       ELSE /\ results' = [results EXCEPT ![r].params = DictUpdate(@, kw)]
            /\ lastOp' = Op("params", results[r].bq, r)
    /\ UNCHANGED <<bqs, lists, hist, bakery, calls, stmts>>

\* The caller drops its reference to a Result, which is then collected.
Release(r) ==
    /\ r = Len(results)
    /\ results' = SubSeq(results, 1, r - 1)
    /\ lastOp' = Op("release", results[r].bq, 0)
    /\ UNCHANGED <<bqs, lists, hist, bakery, calls, stmts>>


-----------------------------------------------------------------------------
(* Sessions, queries and their execution.  A Query is the session it is     *)
(* bound to, the operations the steps put on it and its bound parameters;   *)
(* executing it filters the users the session sees.                         *)

\* The users table as each session sees it (test fixtures: 7 jack, 8 ed,
\* 9 fred, 10 chuck; s2 works in a transaction that has deleted chuck).
UsersOf(s) == IF s = "s1" THEN <<7, 8, 9, 10>> ELSE <<7, 8, 9>>

\* Number of addresses of a user in the fixtures.
AddressCount(u) == CASE u = 7 -> 1 [] u = 8 -> 3 [] u = 9 -> 1 [] OTHER -> 0

PkParam == "pk_1"

\* users outer join addresses as each session sees it, a row written
\* 100 * users.id + addresses.id, with addresses.id 0 for NULL (chuck has no
\* address).  On s2 chuck is deleted and the key (users.id, addresses.id) is
\* not unique: two rows have the key (8, 2).
AddressUsersOf(s) ==
    IF s = "s1" THEN <<701, 802, 803, 1000>> ELSE <<701, 802, 802>>

\* The columns of a row: users.id, and the primary key of its mapper.
UserId(row) == IF row >= 100 THEN row \div 100 ELSE row
RowPk(row) == IF row >= 100 THEN <<row \div 100, row % 100>> ELSE <<row>>

\* mapper._get_clause: the bindparam key of the i-th primary key column
PkParamOf(i) == IF i = 1 THEN PkParam ELSE "pk_2"
PkIndex(k) == IF k = PkParam THEN 1 ELSE 2

\* The i-th key column of the row u against the criterion of the lookup:
\* IS NULL, or = the bound parameter, which no row satisfies when the
\* parameter is NULL.
PkMatch(u, i, isnull, params) ==
    IF isnull THEN RowPk(u)[i] = 0
    ELSE /\ PkParamOf(i) \in DOMAIN params
         /\ params[PkParamOf(i)] # 0
         /\ RowPk(u)[i] = params[PkParamOf(i)]

\* The addresses table as each session sees it, by addresses.id, and the
\* users.id each address belongs to (s2 has deleted address 3).
AddressesOf(s) == IF s = "s1" THEN <<1, 2, 3>> ELSE <<1, 2>>
AddressOwner(a) == IF a = 1 THEN 7 ELSE 8

\* the bindparam of the lazy clause addresses.user_id = :param_1
LazyParam == "param_1"

\* One operation of a query applied to the rows so far.
ApplyOp(op, rows, s, params) ==
    CASE op = "users"    -> UsersOf(s)
      [] op = "address_users" -> AddressUsersOf(s)
      [] op = "addresses" -> AddressesOf(s)
      [] op = "lazy_clause" -> SelectSeq(rows, LAMBDA a :
                                LazyParam \in DOMAIN params
                                    /\ AddressOwner(a) = params[LazyParam])
      [] op = "by_id"    -> SelectSeq(rows, LAMBDA u :
                                "id" \in DOMAIN params /\ UserId(u) = params["id"])
      [] op = "not_jack" -> SelectSeq(rows, LAMBDA u : UserId(u) # 7)
      [] op = "jack"     -> SelectSeq(rows, LAMBDA u : UserId(u) = 7)
      [] op = "pk2_eq_eq"     -> SelectSeq(rows, LAMBDA u :
                PkMatch(u, 1, FALSE, params) /\ PkMatch(u, 2, FALSE, params))
      [] op = "pk2_eq_null"   -> SelectSeq(rows, LAMBDA u :
                PkMatch(u, 1, FALSE, params) /\ PkMatch(u, 2, TRUE, params))
      [] op = "pk2_null_eq"   -> SelectSeq(rows, LAMBDA u :
                PkMatch(u, 1, TRUE, params) /\ PkMatch(u, 2, FALSE, params))
      [] op = "pk2_null_null" -> SelectSeq(rows, LAMBDA u :
                PkMatch(u, 1, TRUE, params) /\ PkMatch(u, 2, TRUE, params))
      [] op = "join_gt2" -> SelectSeq(rows, LAMBDA u : AddressCount(u) > 2)
      [] op = "join_lt2" -> SelectSeq(rows, LAMBDA u : AddressCount(u) = 1)
      [] op = "count"    -> <<Len(rows)>>
      [] op = "slice01"  -> IF rows = <<>> THEN <<>> ELSE <<rows[1]>>
      [] op = "pk_eq"    -> SelectSeq(rows, LAMBDA u :
                                PkParam \in DOMAIN params /\ u = params[PkParam])
      [] op = "pk_is_null" -> <<>>
      [] OTHER           -> rows

RECURSIVE RowsFrom(_, _, _, _, _)
RowsFrom(ops, i, rows, s, params) ==
    IF i > Len(ops) THEN rows
    ELSE RowsFrom(ops, i + 1, ApplyOp(ops[i], rows, s, params), s, params)

\* The rows a statement made of ops gives on session s with params bound.
Rows(ops, s, params) == RowsFrom(ops, 1, <<>>, s, params)

\* A bindparam of the statement that has no value makes the execution raise.
ExecExc(ops, params) ==
    IF \E i \in 1..Len(ops) : ops[i] = "by_id" /\ "id" \notin DOMAIN params
    THEN "StatementError" ELSE NoneVal

ExecRows(ops, s, params) ==
    IF ExecExc(ops, params) # NoneVal THEN <<>> ELSE Rows(ops, s, params)

\* BakedQuery._as_query: steps[0](session), then every later step on the
\* query so far.
AsQuery(steps, s) ==
    [session |-> s, ops |-> [i \in 1..Len(steps) |-> FnOp(steps[i])],
     params |-> EmptyMap]

\* Query.with_session
WithSession(q, s) == [q EXCEPT !.session = s]

\* The subquery eager loaders a compilation leaves in context.attributes:
\* one per subqueryload option of the query, under the key
\* ('subquery', path), each the Query that loads the collection.
SubqueryKey == <<"s:subquery", "o:User.addresses">>
SubqueryKey2 == <<"s:subquery", "o:User.orders">>
SubqueryKey3 == <<"s:subquery", "o:Order.items">>

\* The Query objects a compilation leaves in context.attributes, in the order
\* the bake visits them.  The query of a subquery loader is compiled like any
\* other: under subq_chain the query that loads the orders finds the loader
\* of their items, and the query of that loader finds none; the query that
\* loads the addresses is not on the path of that option and is without it.
CompiledAttributes(q) ==
    LET has(op) == \E i \in 1..Len(q.ops) : q.ops[i] = op
        loader(k) == [k |-> k,
                      v |-> [session |-> q.session, ops |-> <<"nested">> \o q.ops,
                             params |-> q.params]]
        offPath(op) == op # "subq_chain"
        addresses == [k |-> SubqueryKey,
                      v |-> [session |-> q.session,
                             ops |-> <<"nested">> \o SelectSeq(q.ops, offPath),
                             params |-> q.params]]
    IN IF q.ops[1] = "nested"
       THEN (IF has("subq_chain") /\ q.ops[2] # "nested"
             THEN <<loader(SubqueryKey3)>> ELSE <<>>)
       ELSE (IF has("subq_addresses") \/ has("subq_two")
             THEN <<addresses>> ELSE <<>>)
            \o (IF has("subq_two") \/ has("subq_chain")
                THEN <<loader(SubqueryKey2)>> ELSE <<>>)

Contains(t, x) == \E i \in 1..Len(t) : t[i] = x

\* Query._compile_context: the QueryContext of a query.
CompileContext(q) ==
    [session |-> q.session, query |-> q,
     statement |-> [ops |-> q.ops, use_labels |-> FALSE],
     attributes |-> CompiledAttributes(q), baked_queries |-> <<>>,
     autoflush |-> ~Contains(q.ops, "autoflush_off"),
     populate_existing |-> Contains(q.ops, "populate_existing")]

-----------------------------------------------------------------------------
(* The caches.  A cache is the mapping it holds; the class-level bakery is *)
(* an LRUCache, which also keeps its keys in order of use (the last is the  *)
(* most recently used); a bakery given by the caller is a dict.  evicted    *)
(* records that the cache has dropped an entry.                             *)

EmptyCache == [map |-> EmptyMap, order |-> <<>>, evicted |-> FALSE]
CacheNever(c, key) == FALSE

\* key in cache
CacheHas(c, key) == key \in DOMAIN c.map
CacheGet(c, key) == c.map[key]

MapSet(m, key, plan) ==
    [k \in DOMAIN m \cup {key} |-> IF k = key THEN plan ELSE m[k]]

DictSetDefault(c, key, plan) ==
    IF key \in DOMAIN c.map THEN c ELSE [c EXCEPT !.map = MapSet(@, key, plan)]

\* dict.__setitem__
DictSet(c, key, plan) == [c EXCEPT !.map = MapSet(@, key, plan)]

\* LRUCache.__setitem__: the key becomes the most recently used one and the
\* least recently used entries past the capacity are dropped.
LRUSet(c, key, plan) ==
    LET all == Append(SelectSeq(c.order, LAMBDA k : k # key), key)
        kept == IF Len(all) > LRUCapacity
                THEN SubSeq(all, Len(all) - LRUCapacity + 1, Len(all))
                ELSE all
        m == MapSet(c.map, key, plan)
    IN [map |-> [k \in {kept[i] : i \in 1..Len(kept)} |-> m[k]],
        order |-> kept,
        evicted |-> c.evicted \/ Len(all) > LRUCapacity]

\* LRUCache.__getitem__: the key becomes the most recently used one.
LRUTouch(c, key) ==
    [c EXCEPT !.order = Append(SelectSeq(@, LAMBDA k : k # key), key)]

Evicts(cname) == cname = GlobalBakery

\* bakery[key] = plan, on the caches bak
BakerySet(bak, cname, key, plan) ==
    [bak EXCEPT ![cname] = IF Evicts(cname) THEN LRUSet(@, key, plan)
                           ELSE DictSet(@, key, plan)]

\* bakery[key], the effect on the caches bak
BakeryTouch(bak, cname, key) ==
    [bak EXCEPT ![cname] = IF Evicts(cname) THEN LRUTouch(@, key) ELSE @]

\* context.statement.use_labels = True on the shallow copy of the plan under
\* key: the statement is the object the stored plan holds.
ForceLabels(bak, cname, key) ==
    [bak EXCEPT ![cname].map[key].statement.use_labels = TRUE]

-----------------------------------------------------------------------------
(* Baking: BakedQuery._bake and BakedQuery._bake_subquery_loaders.          *)


NoBake(bak) ==
    [bak |-> bak, baked |-> <<>>, compiles |-> 0, invoked |-> <<>>, writes |-> 0]

\* The one element of a singleton: names a computed value once.
The(S) == CHOOSE x \in S : TRUE

NestedKeyPathOnly(key, k) == k

\* bk._cache_key = self._cache_key + k
NestedKey(key, k) == key \o k

RECURSIVE BakeQuery(_, _, _, _), BakeSubqueryLoaders(_, _, _, _)

\* BakedQuery._bake_subquery_loaders, from the i-th item of
\* context.attributes on: every Query under a key holding 'subquery' is
\* wrapped in a BakedQuery of its own (no bakery given), keyed by the
\* parent's key + the attribute key, and baked at once.  Gives the caches,
\* the (k, cache key, query) tuples, and what was compiled, invoked, written.
BakeSubqueryLoaders(bak, key, attrs, i) ==
    IF i > Len(attrs) THEN NoBake(bak)
    ELSE LET a == attrs[i]
             isSub == Contains(a.k, "s:subquery")
             nestedKey == NestedKey(key, a.k)
         IN The({ The({
              [bak |-> rest.bak,
               baked |-> (IF isSub
                          THEN <<[k |-> a.k, cache_key |-> nestedKey, query |-> a.v]>>
                          ELSE <<>>) \o rest.baked,
               compiles |-> b.compiles + rest.compiles,
               invoked |-> (IF isSub THEN <<"bakeLambda">> ELSE <<>>)
                               \o b.invoked \o rest.invoked,
               writes |-> b.writes + rest.writes]
              : rest \in {BakeSubqueryLoaders(b.bak, key, attrs, i + 1)} })
              : b \in {IF isSub
                       THEN BakeQuery(bak, InitialBakery(NoneVal), nestedKey, a.v)
                       ELSE NoBake(bak)} })

\* BakedQuery._bake from the query that _as_query gave: compile, bake the
\* subquery loaders, detach the context and its query from the session,
\* store the context under the key in the bakery cname.
BakeQuery(bak, cname, key, query) ==
    LET context == CompileContext(query)
    IN The({
        [bak |-> BakerySet(sub.bak, cname, key,
                    [context EXCEPT !.attributes = <<>>,
                                    !.baked_queries = sub.baked,
                                    !.session = NoneVal,
                                    !.query = WithSession(context.query, NoneVal)]),
         baked |-> sub.baked,
         compiles |-> 1 + sub.compiles,
         invoked |-> sub.invoked,
         writes |-> 1 + sub.writes]
        : sub \in {BakeSubqueryLoaders(bak, key, context.attributes, 1)} })

UnbakeNoParams(plan, s, params) ==
    [i \in 1..Len(plan.baked_queries) |->
        [k |-> plan.baked_queries[i].k,
         v |-> [key |-> plan.baked_queries[i].cache_key,
                bakery |-> InitialBakery(NoneVal),
                session |-> s, params |-> EmptyMap]]]

\* BakedQuery._unbake_subquery_loaders: a Result per stored tuple, on a
\* BakedQuery with that cache key, for the session, with the parameters;
\* these are the attributes added to the copy of the context.
Unbake(plan, s, params) ==
    [i \in 1..Len(plan.baked_queries) |->
        [k |-> plan.baked_queries[i].k,
         v |-> [key |-> plan.baked_queries[i].cache_key,
                bakery |-> InitialBakery(NoneVal),
                session |-> s, params |-> params]]]

-----------------------------------------------------------------------------
(* Result.__iter__, consumed to the end, of a BakedQuery value b with the   *)
(* steps given, on session s with params, over the caches bak.              *)

IterOut(bak, rows, exc, invoked, compiles, reads, writes, hit, ctx, key) ==
    [bak |-> bak, rows |-> rows, exc |-> exc, invoked |-> invoked,
     compiles |-> compiles, reads |-> reads, writes |-> writes, hit |-> hit,
     ctx |-> ctx, key |-> key]

\* if bq._spoiled: return iter(self._as_query())
IterSpoiled(b, steps, s, params, bak) ==
    LET q == [AsQuery(steps, s) EXCEPT !.params = params]
    IN IterOut(bak, ExecRows(q.ops, s, params), ExecExc(q.ops, params),
               steps, 1, 0, 0, FALSE, <<>>, b.key)

\* the rest of __iter__: bake on a miss, read the plan, copy it, unbake the
\* subquery loaders into the copy, execute.
IterBaked(b, steps, s, params, bak) ==
    LET c == b.bakery
        hit == CacheHas(bak[c], b.key)
    IN The({
        LET inv == IF hit THEN <<>> ELSE steps \o bk.invoked
        IN IF ~CacheHas(bk.bak[c], b.key)
           THEN IterOut(bk.bak, <<>>, "KeyError", inv, bk.compiles, 1,
                        bk.writes, hit, <<>>, b.key)
           ELSE LET plan == CacheGet(bk.bak[c], b.key)
                    context == [plan EXCEPT !.session = s,
                                    !.attributes = Unbake(plan, s, params)]
                IN IterOut(ForceLabels(BakeryTouch(bk.bak, c, b.key), c, b.key),
                           ExecRows(context.statement.ops, s, params),
                           ExecExc(context.statement.ops, params),
                           inv, bk.compiles, 1, bk.writes, hit,
                           context.attributes, b.key)
        : bk \in {IF hit THEN NoBake(bak)
                  ELSE BakeQuery(bak, c, b.key, AsQuery(steps, s))} })

IterAlwaysBaked(b, steps, s, params, bak) == IterBaked(b, steps, s, params, bak)

Iterate(b, steps, s, params, bak) ==
    IF b.spoiled THEN IterSpoiled(b, steps, s, params, bak)
    ELSE IterBaked(b, steps, s, params, bak)

\* The observation of a call that iterated.
IterOp(name, o, r, it) ==
    [Op(name, o, 0) EXCEPT !.res = r, !.invoked = it.invoked,
        !.compiles = it.compiles, !.reads = it.reads, !.writes = it.writes,
        !.hit = it.hit, !.rows = it.rows, !.ctx = it.ctx, !.exc = it.exc,
        !.key = it.key]

\* The iteration of the Result r itself.
IterOf(r) ==
    Iterate(bqs[results[r].bq], Steps(results[r].bq), results[r].session,
            results[r].params, bakery)

\* The caches a call leaves are within the model's bound.
Room(it) ==
    \A c \in CacheNames : Cardinality(DOMAIN it.bak[c].map) <= MaxEntries

\* iter(result), consumed
Iter(r) ==
    \E it \in {IterOf(r)} :
       /\ Room(it)
       /\ bakery' = it.bak
       /\ lastOp' = IterOp("iter", results[r].bq, r, it)
       /\ UNCHANGED <<bqs, lists, hist, results, calls, stmts>>

\* result.all(): list(self)
All(r) ==
    \E it \in {IterOf(r)} :
       /\ Room(it)
       /\ bakery' = it.bak
       /\ lastOp' = IterOp("all", results[r].bq, r, it)
       /\ UNCHANGED <<bqs, lists, hist, results, calls, stmts>>

\* result.one(): list(self), then the row, NoResultFound or
\* MultipleResultsFound
OneResultLenient(ret) ==
    [val |-> IF Len(ret) > 0 THEN ret[1] ELSE 0, exc |-> NoneVal]

\* what one() makes of ret = list(self)
OneResult(ret) ==
    IF Len(ret) = 1 THEN [val |-> ret[1], exc |-> NoneVal]
    ELSE IF Len(ret) = 0 THEN [val |-> 0, exc |-> "NoResultFound"]
    ELSE [val |-> 0, exc |-> "MultipleResultsFound"]

One(r) ==
    \E it \in {IterOf(r)} :
       /\ Room(it)
       /\ bakery' = it.bak
       /\ lastOp' = [IterOp("one", results[r].bq, r, it) EXCEPT
                        !.val = IF it.exc = NoneVal THEN OneResult(it.rows).val
                                ELSE 0,
                        !.exc = IF it.exc # NoneVal THEN it.exc
                                ELSE OneResult(it.rows).exc]
       /\ UNCHANGED <<bqs, lists, hist, results, calls, stmts>>

\* The iteration of a fork of the Result's BakedQuery: with_criteria(fn,
\* *args), for_session(self.session), params(params), list().  The fork and
\* its list are dropped when the call returns.
ForkIterate(r, fn, args, params) ==
    LET o == results[r].bq
        c == Clone(o)
        f == AddCriteriaTo(c.obj, c.lists, fn, args)
        it == Iterate(f.obj, f.lists[f.obj.steps], results[r].session,
                      DictUpdate(EmptyMap, params), bakery)
    IN [it |-> it, lists |-> SubSeq(f.lists, 1, Len(lists)),
        params |-> DictUpdate(EmptyMap, params)]

FirstParamsNone(r) == EmptyMap

\* .params(self._params)
FirstParams(r) == results[r].params

\* result.first()
First(r) ==
    \E fk \in {ForkIterate(r, "firstSlice", <<>>, FirstParams(r))} :
    LET it == fk.it
    IN /\ Room(it)
       /\ bakery' = it.bak
       /\ lists' = fk.lists
       /\ lastOp' = [IterOp("first", results[r].bq, r, it) EXCEPT
                        !.val = IF Len(it.rows) > 0 THEN it.rows[1] ELSE 0]
       /\ UNCHANGED <<bqs, hist, results, calls, stmts>>

\* result._load_on_ident(query, key): ident is key[1], a tuple of one value
\* per primary key column of the mapper, 0 standing for None.
IdentIsNone(ident) == [i \in 1..Len(ident) |-> ident[i] = 0]

NullFlagsOff(ident) == IF Len(ident) = 1 THEN "o:(False,)" ELSE "o:(False, False)"

\* tuple(elem is None for elem in ident), one discriminator
NullFlags(ident) ==
    CASE IdentIsNone(ident) = <<FALSE>>        -> "o:(False,)"
      [] IdentIsNone(ident) = <<TRUE>>         -> "o:(True,)"
      [] IdentIsNone(ident) = <<FALSE, FALSE>> -> "o:(False, False)"
      [] IdentIsNone(ident) = <<FALSE, TRUE>>  -> "o:(False, True)"
      [] IdentIsNone(ident) = <<TRUE, FALSE>>  -> "o:(True, False)"
      [] IdentIsNone(ident) = <<TRUE, TRUE>>   -> "o:(True, True)"

\* the closure setup as it behaves for this ident
SetupFn(ident) ==
    CASE IdentIsNone(ident) = <<FALSE>>        -> "setupEq"
      [] IdentIsNone(ident) = <<TRUE>>         -> "setupNull"
      [] IdentIsNone(ident) = <<FALSE, FALSE>> -> "setupEqEq"
      [] IdentIsNone(ident) = <<FALSE, TRUE>>  -> "setupEqNull"
      [] IdentIsNone(ident) = <<TRUE, FALSE>>  -> "setupNullEq"
      [] IdentIsNone(ident) = <<TRUE, TRUE>>   -> "setupNullNull"

IdentParamsNotNone(ident) ==
    [k \in {PkParamOf(i) : i \in {n \in 1..Len(ident) : ident[n] # 0}} |->
        ident[PkIndex(k)]]

\* params = dict((_get_params[primary_key].key, id_val) for ...): every
\* column of the key, whatever its value
IdentParams(ident) ==
    [k \in {PkParamOf(i) : i \in 1..Len(ident)} |-> ident[PkIndex(k)]]

IdentResultFirst(result) ==
    [val |-> IF Len(result) > 0 THEN result[1] ELSE 0, exc |-> NoneVal]

\* what _load_on_ident makes of result = list(...)
IdentResult(result) ==
    IF Len(result) > 1 THEN [val |-> 0, exc |-> "MultipleResultsFound"]
    ELSE IF Len(result) > 0 THEN [val |-> result[1], exc |-> NoneVal]
    ELSE [val |-> 0, exc |-> NoneVal]

\* The observation of _load_on_ident under the name of the call that ran it.
IdentOp(name, r, ident, fk) ==
    [IterOp(name, results[r].bq, r, fk.it) EXCEPT
        !.val = IF fk.it.exc = NoneVal THEN IdentResult(fk.it.rows).val ELSE 0,
        !.exc = IF fk.it.exc # NoneVal THEN fk.it.exc
                ELSE IdentResult(fk.it.rows).exc,
        !.bound = fk.params,
        !.ident = ident]

LoadOnIdent(r, ident) ==
    \E fk \in {ForkIterate(r, SetupFn(ident), <<NullFlags(ident)>>,
                           IdentParams(ident))} :
       /\ Room(fk.it)
       /\ bakery' = fk.it.bak
       /\ lists' = fk.lists
       /\ lastOp' = IdentOp("load_on_ident", r, ident, fk)
       /\ UNCHANGED <<bqs, hist, results, calls, stmts>>

\* The primary key columns of the mapper of the query steps[0] gives.
PkLen(o) == IF Steps(o)[1] = "seedAddressUser" THEN 2 ELSE 1

\* The entity with the identity ident that the session holds.
IdentEntity(ident) ==
    IF Len(ident) = 1 THEN ident[1] ELSE 100 * ident[1] + ident[2]

\* result.get(ident): query = self.bq.steps[0](self.session), then
\* query._get_impl(ident, self._load_on_ident), which gives the entity from
\* the identity map of the session when it is there (inmap) and calls
\* _load_on_ident otherwise.
Get(r, ident, inmap) ==
    IF inmap
    THEN /\ lastOp' = [Op("get", results[r].bq, 0) EXCEPT
                          !.res = r,
                          !.invoked = <<Steps(results[r].bq)[1]>>,
                          !.val = IdentEntity(ident),
                          !.ident = ident]
         /\ UNCHANGED <<bqs, lists, hist, results, bakery, calls, stmts>>
    ELSE \E fk \in {ForkIterate(r, SetupFn(ident), <<NullFlags(ident)>>,
                                IdentParams(ident))} :
            /\ Room(fk.it)
            /\ bakery' = fk.it.bak
            /\ lists' = fk.lists
            /\ lastOp' = [IdentOp("get", r, ident, fk) EXCEPT
                             !.invoked = <<Steps(results[r].bq)[1]>> \o @]
            /\ UNCHANGED <<bqs, hist, results, calls, stmts>>

-----------------------------------------------------------------------------
(* BakedLazyLoader._emit_lazyload.  The relationships all lead to the       *)
(* Address mapper, whose _compiled_cache is the cache LocalBakery: a        *)
(* one-to-many with an order_by and a reverse many-to-one loaded by get, the *)
(* same join declared uselist=False, a many-to-one loaded by get, and a     *)
(* many-to-many through a secondary table.  A call is a record lz: the      *)
(* relationship, its bake_queries flag, what the owning state has, the      *)
(* value of the lazy clause's parameter or of the identity (0: None) and    *)
(* the session.                                                             *)

LazyRel(name, get, uselist, secondary, order, revs) ==
    [prop |-> name, use_get |-> get, uselist |-> uselist,
     secondary |-> secondary, order_by |-> order, revs |-> revs]

LazyProps ==
    {LazyRel("o:User.addresses", FALSE, TRUE, FALSE, TRUE, 1),
     LazyRel("o:User.address", FALSE, FALSE, FALSE, FALSE, 0),
     LazyRel("o:Order.address", TRUE, FALSE, FALSE, FALSE, 0),
     LazyRel("o:Item.addresses", FALSE, TRUE, TRUE, FALSE, 0)}

\* pending (not state.key), passive & NO_AUTOFLUSH, state.load_path,
\* state.load_options
LazyState(pending, noflush, path, options) ==
    [pending |-> pending, no_autoflush |-> noflush, load_path |-> path,
     load_options |-> options]

LazyStates ==
    {LazyState(FALSE, FALSE, FALSE, FALSE), LazyState(TRUE, FALSE, FALSE, FALSE),
     LazyState(FALSE, TRUE, FALSE, FALSE), LazyState(FALSE, FALSE, TRUE, FALSE),
     LazyState(FALSE, FALSE, FALSE, TRUE)}

\* The values the caller gives: users.id of the owner on the general path
\* (None for an owner without one), addresses.id on the get path.
LazyKeys(rel) == IF rel.use_get THEN {1, 3} ELSE {0, 8}

Opt(cond, fn, args) == IF cond THEN <<<<fn, args>>>> ELSE <<>>

\* The add_criteria calls of lines 294-321, in order.
LazyHead(lz) ==
    <<<<"lazyAdapt", <<lz.prop>>>>>>
        \o Opt(lz.secondary, "lazySecondary", <<>>)
        \o Opt(lz.pending \/ lz.no_autoflush, "lazyNoAutoflush", <<>>)
        \o Opt(lz.load_path, "lazyPath", <<>>)
        \o Opt(lz.load_options, "lazyOptions", <<>>)

\* The add_criteria calls of lines 327-350, in order.
LazyTail(lz) ==
    Opt(lz.order_by, "lazyOrderBy", <<>>)
        \o [i \in 1..lz.revs |-> <<"lazyRev", <<>>>>]
        \o <<<<"lazyFilter", <<>>>>>>

RECURSIVE KeyAfter(_, _, _)
KeyAfter(key, crit, i) ==
    IF i > Len(crit) THEN key
    ELSE KeyAfter(UpdateCacheKey(key, crit[i][1], crit[i][2]), crit, i + 1)

\* q.spoil() at lines 299, 313 and 319
LazySpoil(b, lz) ==
    LET b1 == IF ~lz.bake_queries THEN SpoilObj(b) ELSE b
        b2 == IF lz.load_path THEN SpoilObj(b1) ELSE b1
    IN IF lz.load_options THEN SpoilObj(b2) ELSE b2

\* The BakedQuery q after the add_criteria calls crit: its value and steps.
LazyQuery(lz, crit) ==
    [obj |-> LazySpoil([steps |-> 0,
                        key |-> KeyAfter(InitialKey("lazySeed", <<>>), crit, 1),
                        bakery |-> InitialBakery(LocalBakery),
                        spoiled |-> FALSE], lz),
     steps |-> <<"lazySeed">> \o [i \in 1..Len(crit) |-> crit[i][1]]]

ForkObjUnspoiled(b, fn, args) ==
    [b EXCEPT !.key = UpdateCacheKey(b.key, fn, args), !.spoiled = FALSE]

\* with_criteria on an object value: _clone copies key, bakery and the
\* spoiled flag, add_criteria extends the key.
ForkObj(b, fn, args) == [b EXCEPT !.key = UpdateCacheKey(b.key, fn, args)]

ScalarResultStrict(result) ==
    IF Len(result) > 1
    THEN [val |-> 0, warn |-> FALSE, exc |-> "MultipleResultsFound"]
    ELSE [val |-> IF Len(result) = 1 THEN result[1] ELSE 0, warn |-> FALSE,
          exc |-> NoneVal]

\* lines 355-365: the first row with a warning when there are more, None
\* when there is none
ScalarResult(result) ==
    IF Len(result) > 0
    THEN [val |-> result[1], warn |-> Len(result) > 1, exc |-> NoneVal]
    ELSE [val |-> 0, warn |-> FALSE, exc |-> NoneVal]

\* the parameters of the lazy clause
LazyParams(lz) == [k \in {LazyParam} |-> lz.param]

EmitLazyload(lz) ==
    IF lz.use_get
    THEN \* return q(session)._load_on_ident(session.query(self.mapper), ident_key)
         \E q \in {LazyQuery(lz, LazyHead(lz))}, ident \in {<<lz.param>>} :
         \E it \in {Iterate(ForkObj(q.obj, SetupFn(ident), <<NullFlags(ident)>>),
                            Append(q.steps, SetupFn(ident)), lz.session,
                            IdentParams(ident), bakery)} :
            /\ Room(it)
            /\ bakery' = it.bak
            /\ lastOp' = [IterOp("lazyload", 0, 0, it) EXCEPT
                             !.lazy = lz,
                             !.val = IF it.exc = NoneVal
                                     THEN IdentResult(it.rows).val ELSE 0,
                             !.exc = IF it.exc # NoneVal THEN it.exc
                                     ELSE IdentResult(it.rows).exc]
            /\ UNCHANGED <<bqs, lists, hist, results, calls, stmts>>
    ELSE IF lz.pending /\ lz.param = 0
    THEN \* a pending owner with None among the parameters: return None
         /\ lastOp' = [Op("lazyload", 0, 0) EXCEPT !.lazy = lz]
         /\ UNCHANGED <<bqs, lists, hist, results, bakery, calls, stmts>>
    ELSE \E q \in {LazyQuery(lz, LazyHead(lz) \o LazyTail(lz))} :
         \E it \in {Iterate(q.obj, q.steps, lz.session, LazyParams(lz), bakery)} :
            /\ Room(it)
            /\ bakery' = it.bak
            /\ lastOp' = [IterOp("lazyload", 0, 0, it) EXCEPT
                             !.lazy = lz,
                             !.val = IF it.exc = NoneVal /\ ~lz.uselist
                                     THEN ScalarResult(it.rows).val ELSE 0,
                             !.warn = it.exc = NoneVal /\ ~lz.uselist
                                          /\ ScalarResult(it.rows).warn,
                             !.exc = IF it.exc # NoneVal \/ lz.uselist THEN it.exc
                                     ELSE ScalarResult(it.rows).exc]
            /\ UNCHANGED <<bqs, lists, hist, results, calls, stmts>>

-----------------------------------------------------------------------------
(* DefaultEngineStrategy.create(name_or_url, **kwargs), kwargs being the    *)
(* set of the keywords given.  The keywords that the constructors of the    *)
(* dialect, the DBAPI, the pool class and the engine class take are those   *)
(* of MySQLDialect_pymysql, QueuePool and Engine that the model gives.      *)

DialectKw == {"encoding"}
DbapiKw == {}
\* the arguments of the pool class and the keywords they are given by
PoolKw == {"pool_size", "timeout"}
Translate(k) == IF k = "timeout" THEN "pool_timeout" ELSE k
EngineKw == {"echo"}

\* The name entrypoint at line 185: its assignment at line 57 is a comment,
\* and the module has no global of this name.
EntrypointBound == FALSE

\* kwargs when line 149 is reached
Leftover(kwargs) ==
    LET k1 == kwargs \ {"_coerce_config"}
        k2 == k1 \ DialectKw
        k3 == IF "module" \in k2 THEN k2 \ {"module"} ELSE k2 \ DbapiKw
        k4 == k3 \ {"connect_args"}
        k5 == IF "pool" \in k4 THEN k4 \ {"pool"}
              ELSE k4 \ ({"creator", "poolclass"} \cup {Translate(k) : k \in PoolKw})
        k6 == k5 \ EngineKw
    IN k6 \ {"_initialize"}

CreateEngine(kwargs) ==
    /\ lastOp' = [Op("create_engine", 0, 0) EXCEPT
                     !.bound = [k \in kwargs |-> 1],
                     !.exc = IF Leftover(kwargs) # {} THEN "TypeError"
                             ELSE IF ~EntrypointBound THEN "NameError"
                             ELSE NoneVal,
                     !.names = Leftover(kwargs),
                     !.val = IF Leftover(kwargs) = {} /\ EntrypointBound
                             THEN 1 ELSE 0]
    /\ UNCHANGED <<bqs, lists, hist, results, bakery, calls, stmts>>

-----------------------------------------------------------------------------
(* Callers running Result.__iter__ at the same time.  calls[t] is where    *)
(* the caller t is in __iter__ and what its local variables hold; stmts is *)
(* the heap of the statement objects that compilations made: a plan and     *)
(* every copy.copy of it hold the same statement object.  calls[t].wrote    *)
(* records the <<cache, key>> pairs the call has stored under.              *)

Threads == {1, 2}

IdleCall ==
    [pc |-> "idle", bq |-> 0, session |-> NoneVal, context |-> <<>>,
     next |-> 0, baked |-> <<>>, miss |-> FALSE, rows |-> <<>>,
     exc |-> NoneVal, wrote |-> {}, flushed |-> FALSE,
     stack |-> <<>>, bakes |-> 0]

\* A statement object as a compilation makes it; at_store keeps the value
\* of use_labels the object had when its plan was stored.
NewStmt(q, labels) == [ops |-> q.ops, use_labels |-> labels, at_store |-> labels]

\* query._compile_context() with the statement on the heap, at the place id.
CompileAt(q, id) == [CompileContext(q) EXCEPT !.statement = id]

DetachedKeepsSession(context, baked) ==
    [context EXCEPT !.attributes = <<>>, !.baked_queries = baked]

\* the context of _bake detached from the session (baked.py:93-94), with the
\* (k, cache key, query) tuples of its subquery loaders
Detached(context, baked) ==
    [context EXCEPT !.attributes = <<>>,
                    !.baked_queries = baked,
                    !.session = NoneVal,
                    !.query = WithSession(context.query, NoneVal)]

\* The caller t enters iter(bq(session)) of a BakedQuery that is not spoiled.
RaceCall(t, o, s) ==
    /\ calls[t].pc = "idle"
    /\ ~bqs[o].spoiled
    /\ calls' = [calls EXCEPT ![t] =
                    [IdleCall EXCEPT !.pc = "lookup", !.bq = o, !.session = s]]
    /\ UNCHANGED <<bqs, lists, hist, results, bakery, lastOp, stmts>>

\* if bq._cache_key not in bq._bakery
RaceLookup(t) ==
    /\ calls[t].pc = "lookup"
    /\ LET b == bqs[calls[t].bq]
           miss == ~CacheHas(bakery[b.bakery], b.key)
       IN calls' = [calls EXCEPT ![t].miss = miss,
                                 ![t].pc = IF miss THEN "compile" ELSE "read"]
    /\ UNCHANGED <<bqs, lists, hist, results, bakery, lastOp, stmts>>

\* _bake: query = self._as_query(session); context =
\* query._compile_context().  A step or the compilation may raise (fail);
\* the compilation gives the statement its use_labels (labels).
RaceCompile(t, labels, fail) ==
    /\ calls[t].pc = "compile"
    /\ IF fail
       THEN /\ calls' = [calls EXCEPT ![t].pc = "failed", ![t].exc = "Error"]
            /\ stmts' = stmts
       ELSE /\ Len(stmts) < MaxStmts
            /\ LET q == AsQuery(Steps(calls[t].bq), calls[t].session)
               IN /\ stmts' = Append(stmts, NewStmt(q, labels))
                  /\ calls' = [calls EXCEPT
                                  ![t].context = CompileAt(q, Len(stmts) + 1),
                                  ![t].next = 1,
                                  ![t].pc = "nested"]
    /\ UNCHANGED <<bqs, lists, hist, results, bakery, lastOp>>

NextItemAgain(next) == next

\* for k, v in context.attributes.items(): the loop goes on to the item
\* after the one it has done.
NextItem(next) == next + 1

\* self._cache_key of the BakedQuery whose _bake the caller t is in: of the
\* caller's own, or of the BakedQuery made for the loader being baked.
BakingKey(t) ==
    IF calls[t].stack = <<>> THEN bqs[calls[t].bq].key
    ELSE Head(calls[t].stack).cache_key

\* _bake_subquery_loaders, one item of context.attributes: the Query under
\* a 'subquery' key is baked in a BakedQuery of its own, bk._bake(session),
\* under the key of the BakedQuery being baked + k.  It is compiled, which
\* may raise (fail) and labels its statement as the parent's compilation
\* did.  With no loaders of its own it is detached and stored in the
\* class-level bakery and its tuple is added to baked_queries; with loaders,
\* _bake is entered for it and the loop it left waits on the stack.
RaceBakeNested(t, fail) ==
    /\ calls[t].pc = "nested"
    /\ calls[t].next <= Len(calls[t].context.attributes)
    /\ LET a == calls[t].context.attributes[calls[t].next]
           nestedKey == NestedKey(BakingKey(t), a.k)
           labels == stmts[calls[t].context.statement].at_store
           tuple == [k |-> a.k, cache_key |-> nestedKey, query |-> a.v]
       IN IF fail
          THEN /\ calls' = [calls EXCEPT ![t].pc = "failed", ![t].exc = "Error"]
               /\ UNCHANGED <<stmts, bakery>>
          ELSE /\ Len(stmts) < MaxStmts
               /\ stmts' = Append(stmts, NewStmt(a.v, labels))
               /\ \E nested \in {CompileAt(a.v, Len(stmts) + 1)} :
                     IF nested.attributes = <<>>
                     THEN /\ bakery' = BakerySet(bakery, InitialBakery(NoneVal),
                                                 nestedKey, Detached(nested, <<>>))
                          /\ calls' = [calls EXCEPT
                                          ![t].baked = Append(@, tuple),
                                          ![t].wrote = @ \cup
                                              {<<InitialBakery(NoneVal), nestedKey>>},
                                          ![t].bakes = @ + 1,
                                          ![t].next = NextItem(@)]
                     ELSE /\ bakery' = bakery
                          /\ calls' = [calls EXCEPT
                                          ![t].stack =
                                              <<[context |-> calls[t].context,
                                                 next |-> calls[t].next,
                                                 baked |-> calls[t].baked,
                                                 k |-> a.k,
                                                 cache_key |-> nestedKey,
                                                 query |-> a.v]>> \o @,
                                          ![t].context = nested,
                                          ![t].baked = <<>>,
                                          ![t].bakes = @ + 1,
                                          ![t].next = 1]
    /\ UNCHANGED <<bqs, lists, hist, results, lastOp>>

\* the rest of the _bake of a loader's BakedQuery: its context is detached
\* and stored in the class-level bakery, and the loop that baked it goes on
\* with the tuple added to its baked_queries.
RaceStoreNested(t) ==
    /\ calls[t].pc = "nested"
    /\ calls[t].next > Len(calls[t].context.attributes)
    /\ calls[t].stack # <<>>
    /\ LET frame == Head(calls[t].stack)
       IN /\ bakery' = BakerySet(bakery, InitialBakery(NoneVal), frame.cache_key,
                                 Detached(calls[t].context, calls[t].baked))
          /\ calls' = [calls EXCEPT
                          ![t].stack = Tail(@),
                          ![t].context = frame.context,
                          ![t].baked = Append(frame.baked,
                                              [k |-> frame.k,
                                               cache_key |-> frame.cache_key,
                                               query |-> frame.query]),
                          ![t].wrote = @ \cup
                              {<<InitialBakery(NoneVal), frame.cache_key>>},
                          ![t].next = NextItem(frame.next)]
    /\ UNCHANGED <<bqs, lists, hist, results, lastOp, stmts>>

RaceStoreEarly(t) ==
    /\ calls[t].pc = "nested"
    /\ calls[t].stack = <<>>
    /\ LET b == bqs[calls[t].bq]
           attrs == calls[t].context.attributes
       IN bakery' = BakerySet(bakery, b.bakery, b.key,
                       Detached(calls[t].context,
                                [i \in 1..Len(attrs) |->
                                    [k |-> attrs[i].k,
                                     cache_key |-> NestedKey(b.key, attrs[i].k),
                                     query |-> attrs[i].v]]))
    /\ calls' = [calls EXCEPT ![t].pc = "read",
                              ![t].wrote = @ \cup {<<bqs[calls[t].bq].bakery,
                                                     bqs[calls[t].bq].key>>}]
    /\ UNCHANGED <<bqs, lists, hist, results, lastOp, stmts>>

\* the rest of _bake: the context is detached and
\* self._bakery[self._cache_key] = context
RaceStore(t) ==
    /\ calls[t].pc = "nested"
    /\ calls[t].next > Len(calls[t].context.attributes)
    /\ calls[t].stack = <<>>
    /\ LET b == bqs[calls[t].bq]
       IN bakery' = BakerySet(bakery, b.bakery, b.key,
                              Detached(calls[t].context, calls[t].baked))
    /\ calls' = [calls EXCEPT ![t].pc = "read",
                              ![t].wrote = @ \cup {<<bqs[calls[t].bq].bakery,
                                                     bqs[calls[t].bq].key>>}]
    /\ UNCHANGED <<bqs, lists, hist, results, lastOp, stmts>>

\* baked_context = bq._bakery[bq._cache_key]; the shallow copy, its session,
\* its copy of the attributes with the subquery loaders unbaked into it
RaceRead(t) ==
    /\ calls[t].pc = "read"
    /\ LET b == bqs[calls[t].bq]
       IN IF ~CacheHas(bakery[b.bakery], b.key)
          THEN /\ calls' = [calls EXCEPT ![t].pc = "failed", ![t].exc = "KeyError"]
               /\ bakery' = bakery
          ELSE LET plan == CacheGet(bakery[b.bakery], b.key)
               IN /\ calls' = [calls EXCEPT
                                  ![t].context =
                                      [plan EXCEPT
                                          !.session = calls[t].session,
                                          !.attributes =
                                              Unbake(plan, calls[t].session, EmptyMap)],
                                  ![t].pc = "label"]
                  /\ bakery' = BakeryTouch(bakery, b.bakery, b.key)
    /\ UNCHANGED <<bqs, lists, hist, results, lastOp, stmts>>

\* context.statement.use_labels = True
RaceLabel(t) ==
    /\ calls[t].pc = "label"
    /\ stmts' = [stmts EXCEPT ![calls[t].context.statement].use_labels = TRUE]
    /\ calls' = [calls EXCEPT ![t].pc = "flush"]
    /\ UNCHANGED <<bqs, lists, hist, results, bakery, lastOp>>

AutoflushesAlways(context) == context.autoflush

\* if context.autoflush and not context.populate_existing
Autoflushes(context) == context.autoflush /\ ~context.populate_existing

\* self.session._autoflush(), when the context asks for it; flushed records
\* that the session was flushed in this call.
RaceAutoflush(t) ==
    /\ calls[t].pc = "flush"
    /\ calls' = [calls EXCEPT ![t].flushed = Autoflushes(calls[t].context),
                              ![t].pc = "exec"]
    /\ UNCHANGED <<bqs, lists, hist, results, bakery, lastOp, stmts>>

\* context.query.params(self._params).with_session(self.session)
\*     ._execute_and_instances(context), consumed
RaceExecute(t) ==
    /\ calls[t].pc = "exec"
    /\ LET ops == stmts[calls[t].context.statement].ops
       IN calls' = [calls EXCEPT
                       ![t].rows = ExecRows(ops, calls[t].session, EmptyMap),
                       ![t].exc = ExecExc(ops, EmptyMap),
                       ![t].pc = "done"]
    /\ UNCHANGED <<bqs, lists, hist, results, bakery, lastOp, stmts>>

\* The caller has its rows, or its exception, and goes on.
RaceReturn(t) ==
    /\ calls[t].pc \in {"done", "failed"}
    /\ calls' = [calls EXCEPT ![t] = IdleCall]
    /\ UNCHANGED <<bqs, lists, hist, results, bakery, lastOp, stmts>>

-----------------------------------------------------------------------------
Init ==
    /\ bqs = <<>>
    /\ lists = <<>>
    /\ hist = <<>>
    /\ results = <<>>
    /\ bakery = [c \in CacheNames |-> EmptyCache]
    /\ lastOp = Op("init", 0, 0)
    /\ calls = [t \in Threads |-> IdleCall]
    /\ stmts = <<>>

\* The calls of the key-building specification: steps with and without
\* discriminators, among them discriminators that are a file name and a line
\* number; a session attached and a parameter bound in between.
KeySeeds == {<<"seedUsers", <<>>>>, <<"seedUsers", <<"o:x">>>>}
KeyCalls == {<<"fJack", <<>>>>,
             <<"fJack", <<"o:x">>>>,
             <<"fJack", <<"s:test_baked.py", "i:293">>>>,
             <<"fCount", <<>>>>,
             <<"closureA", <<>>>>}

NextKey ==
    \/ \E c \in KeySeeds, b \in {NoneVal, LocalBakery} :
          Len(bqs) < MaxRunCreates /\ Create(c[1], c[2], b)
    \/ \E o \in Objs, c \in KeyCalls : AddCriteria(o, c[1], c[2])
    \/ \E o \in Objs, c \in KeyCalls, t \in BOOLEAN : IAdd(o, t, c[1], c[2])
    \/ \E o \in Objs, c \in KeyCalls :
          Len(bqs) < MaxRunObjs /\ WithCriteria(o, c[1], c[2])
    \/ \E o \in Objs, c \in KeyCalls, t \in BOOLEAN :
          Len(bqs) < MaxRunObjs /\ Add(o, t, c[1], c[2])
    \/ \E o \in Objs : Spoil(o)
    \/ \E o \in Objs : ForSession(o, "s1")
    \/ \E r \in Results : Params(r, <<>>, [k \in {"id"} |-> 7])
    \/ \E r \in Results : Release(r)

SpecKey == Init /\ [][NextKey]_vars

\* The calls of the full specification.
RunSeeds == {<<"seedUsers", <<>>>>}
RunCalls == {<<"fById", <<>>>>, <<"fSubq", <<>>>>}
RunArgs == {<<>>, <<[k \in {"id"} |-> 7]>>, <<EmptyMap, EmptyMap>>}

Next ==
    \/ \E c \in RunSeeds, b \in {NoneVal, LocalBakery} :
          Len(bqs) < MaxRunCreates /\ Create(c[1], c[2], b)
    \/ \E o \in Objs, c \in RunCalls :
          Len(Steps(o)) < MaxRunSteps /\ AddCriteria(o, c[1], c[2])
    \/ \E o \in Objs, c \in RunCalls, t \in BOOLEAN :
          Len(Steps(o)) < MaxRunSteps /\ IAdd(o, t, c[1], c[2])
    \/ \E o \in Objs, c \in RunCalls :
          /\ Len(Steps(o)) < MaxRunSteps /\ Len(bqs) < MaxRunObjs
          /\ WithCriteria(o, c[1], c[2])
    \/ \E o \in Objs, c \in RunCalls, t \in BOOLEAN :
          /\ Len(Steps(o)) < MaxRunSteps /\ Len(bqs) < MaxRunObjs
          /\ Add(o, t, c[1], c[2])
    \/ \E o \in Objs : Spoil(o)
    \/ \E o \in Objs, s \in Sessions : ForSession(o, s)
    \/ \E r \in Results, kw \in ParamDicts, args \in RunArgs : Params(r, args, kw)
    \/ \E r \in Results : Release(r)
    \/ \E r \in Results : Iter(r)
    \/ \E r \in Results : All(r)
    \/ \E r \in Results : One(r)
    \/ \E r \in Results : First(r)
    \/ \E r \in Results, ident \in {<<7>>, <<0>>} : LoadOnIdent(r, ident)

Spec == Init /\ [][Next]_vars

\* The calls of the branching specification: one base, forks of it that go
\* on with one of two steps that exclude each other, each fork run.
BranchCalls == {<<"closureA", <<>>>>, <<"closureB", <<>>>>}

NextBranch ==
    \/ \E c \in RunSeeds, b \in {NoneVal, LocalBakery} :
          Len(bqs) < MaxRunCreates /\ Create(c[1], c[2], b)
    \/ \E c \in BranchCalls :
          bqs # <<>> /\ Len(Steps(1)) < MaxRunSteps /\ WithCriteria(1, c[1], c[2])
    \/ \E o \in Objs, s \in Sessions : ForSession(o, s)
    \/ \E r \in Results : Release(r)
    \/ \E r \in Results : All(r)

SpecBranch == Init /\ [][NextBranch]_vars

\* The calls of the specification of the Result operations: a BakedQuery
\* over User or over AddressUser, with at most one filtering step, and every
\* operation of its Results; identities with and without None.
ResultSeeds == {"seedUsers", "seedAddressUser"}
ResultCalls == {"fById", "fNotJack"}
ResultParams == {[k \in {"id"} |-> v] : v \in {7, 10}}
Idents == {<<7>>, <<10>>, <<0>>, <<7, 1>>, <<7, 0>>, <<10, 0>>, <<8, 2>>}

NextResult ==
    \/ \E fn \in ResultSeeds, b \in {NoneVal, LocalBakery} :
          Len(bqs) < MaxRunCreates /\ Create(fn, <<>>, b)
    \/ \E o \in Objs, fn \in ResultCalls :
          Len(Steps(o)) < MaxRunSteps /\ AddCriteria(o, fn, <<>>)
    \/ \E o \in Objs : Spoil(o)
    \/ \E o \in Objs, s \in Sessions : ForSession(o, s)
    \/ \E r \in Results, kw \in ResultParams : Params(r, <<>>, kw)
    \/ \E r \in Results : Release(r)
    \/ \E r \in Results : Iter(r)
    \/ \E r \in Results : All(r)
    \/ \E r \in Results : One(r)
    \/ \E r \in Results : First(r)
    \/ \E r \in Results, ident \in Idents :
          Len(ident) = PkLen(results[r].bq) /\ LoadOnIdent(r, ident)
    \/ \E r \in Results, ident \in Idents, inmap \in BOOLEAN :
          Len(ident) = PkLen(results[r].bq) /\ Get(r, ident, inmap)

SpecResult == Init /\ [][NextResult]_vars

\* The calls of the specification of Result.params: keyword arguments of
\* one key, with or without positional dicts.
ParamKws == {EmptyMap} \cup {[k \in {key} |-> v] : key \in {"id", "name"}, v \in {7, 8}}
ParamArgs == {<<>>, <<[k \in {"id"} |-> 8]>>, <<[k \in {"name"} |-> 7]>>,
              <<EmptyMap, EmptyMap>>}

NextParams ==
    \/ \E b \in {NoneVal, LocalBakery} :
          Len(bqs) < MaxRunCreates /\ Create("seedUsers", <<>>, b)
    \/ \E o \in Objs :
          Len(Steps(o)) < MaxRunSteps /\ AddCriteria(o, "fById", <<>>)
    \/ \E o \in Objs, s \in Sessions : ForSession(o, s)
    \/ \E r \in Results, kw \in ParamKws, args \in ParamArgs : Params(r, args, kw)
    \/ \E r \in Results : Release(r)
    \/ \E r \in Results : All(r)

SpecParams == Init /\ [][NextParams]_vars

\* The calls of the lazy-loading specification.
NextLazy ==
    \E rel \in LazyProps, st \in LazyStates, bake \in BOOLEAN, s \in Sessions :
    \E key \in LazyKeys(rel) :
        EmitLazyload([prop |-> rel.prop, use_get |-> rel.use_get,
                      uselist |-> rel.uselist, secondary |-> rel.secondary,
                      order_by |-> rel.order_by, revs |-> rel.revs,
                      bake_queries |-> bake, pending |-> st.pending,
                      no_autoflush |-> st.no_autoflush,
                      load_path |-> st.load_path,
                      load_options |-> st.load_options, param |-> key,
                      session |-> s])

SpecLazy == Init /\ [][NextLazy]_vars

\* The calls of the engine specification: every set of these keywords.
EngineKeywords == {"encoding", "module", "connect_args", "pool", "pool_size",
                   "pool_timeout", "echo", "_initialize", "bogus"}

NextEngine == \E kwargs \in SUBSET EngineKeywords : CreateEngine(kwargs)

SpecEngine == Init /\ [][NextEngine]_vars

\* The calls of the racing specification: one BakedQuery with a cache of
\* its own (the class-level cache holds 1000 plans, far more than the race
\* stores), built before the callers start, then iterated by the callers at
\* the same time, every access to a shared object being one step.
RaceCalls == {<<"fSubq2", <<>>>>}
\* Every caller has a session of its own.
SessionOf(t) == IF t = 1 THEN "s1" ELSE "s2"

NextRace ==
    \/ \E c \in RunSeeds :
          Len(bqs) < MaxRunCreates /\ Create(c[1], c[2], LocalBakery)
    \/ \E o \in Objs, c \in RaceCalls :
          /\ Len(Steps(o)) < MaxRunSteps
          /\ \A t \in Threads : calls[t].pc = "idle"
          /\ AddCriteria(o, c[1], c[2])
    \/ \E t \in Threads, o \in Objs : RaceCall(t, o, SessionOf(t))
    \/ \E t \in Threads : RaceLookup(t)
    \/ \E t \in Threads, labels \in BOOLEAN, fail \in BOOLEAN :
          RaceCompile(t, labels, fail)
    \/ \E t \in Threads, fail \in BOOLEAN : RaceBakeNested(t, fail)
    \/ \E t \in Threads : RaceStore(t)
    \/ \E t \in Threads : RaceRead(t)
    \/ \E t \in Threads : RaceLabel(t)
    \/ \E t \in Threads : RaceAutoflush(t)
    \/ \E t \in Threads : RaceExecute(t)
    \/ \E t \in Threads : RaceReturn(t)

SpecRace == Init /\ [][NextRace]_vars

\* The iterations of one caller over pipelines that turn autoflush off, that
\* populate existing objects, that do both, and that load eagerly.
MaxFlushSteps == 3
FlushCalls == {<<"lazyNoAutoflush", <<>>>>, <<"fPopulate", <<>>>>,
               <<"fSubq", <<>>>>}
FlushCaller == 1

NextFlush ==
    \/ \E c \in RunSeeds :
          Len(bqs) < MaxRunCreates /\ Create(c[1], c[2], LocalBakery)
    \/ \E o \in Objs, c \in FlushCalls :
          /\ Len(Steps(o)) < MaxFlushSteps
          /\ \A t \in Threads : calls[t].pc = "idle"
          /\ AddCriteria(o, c[1], c[2])
    \/ \E o \in Objs : RaceCall(FlushCaller, o, SessionOf(FlushCaller))
    \/ RaceLookup(FlushCaller)
    \/ \E labels \in BOOLEAN, fail \in BOOLEAN :
          RaceCompile(FlushCaller, labels, fail)
    \/ \E fail \in BOOLEAN : RaceBakeNested(FlushCaller, fail)
    \/ RaceStore(FlushCaller)
    \/ RaceRead(FlushCaller)
    \/ RaceLabel(FlushCaller)
    \/ RaceAutoflush(FlushCaller)
    \/ RaceExecute(FlushCaller)
    \/ RaceReturn(FlushCaller)

SpecFlush == Init /\ [][NextFlush]_vars

\* Two callers iterating a BakedQuery with one subquery loader and a bakery
\* of its own: the class-level bakery is given the one key of that loader
\* and drops nothing.
NestCalls == {<<"fSubq", <<>>>>}

NextNest ==
    \/ \E c \in RunSeeds :
          Len(bqs) < MaxRunCreates /\ Create(c[1], c[2], LocalBakery)
    \/ \E o \in Objs, c \in NestCalls :
          /\ Len(Steps(o)) < MaxRunSteps
          /\ \A t \in Threads : calls[t].pc = "idle"
          /\ AddCriteria(o, c[1], c[2])
    \/ \E t \in Threads, o \in Objs : RaceCall(t, o, SessionOf(t))
    \/ \E t \in Threads : RaceLookup(t)
    \/ \E t \in Threads, labels \in BOOLEAN, fail \in BOOLEAN :
          RaceCompile(t, labels, fail)
    \/ \E t \in Threads, fail \in BOOLEAN : RaceBakeNested(t, fail)
    \/ \E t \in Threads : RaceStore(t)
    \/ \E t \in Threads : RaceRead(t)
    \/ \E t \in Threads : RaceLabel(t)
    \/ \E t \in Threads : RaceAutoflush(t)
    \/ \E t \in Threads : RaceExecute(t)
    \/ \E t \in Threads : RaceReturn(t)

SpecNest == Init /\ [][NextNest]_vars

\* Two callers iterating BakedQuerys of two keys that were given no bakery:
\* both use the class-level LRUCache, which drops its least recently used
\* entries when it is over its capacity.
EvictSeeds == {<<"seedUsers", <<>>>>, <<"seedAddressUser", <<>>>>}
\* The statements compiled before the last call is entered.
MaxEvictStmts == 3

NextEvict ==
    \/ \E c \in EvictSeeds :
          Len(bqs) < MaxRunObjs /\ Create(c[1], c[2], NoneVal)
    \/ \E t \in Threads, o \in Objs :
          Len(stmts) < MaxEvictStmts /\ RaceCall(t, o, SessionOf(t))
    \/ \E t \in Threads : RaceLookup(t)
    \/ \E t \in Threads, fail \in BOOLEAN : RaceCompile(t, FALSE, fail)
    \/ \E t \in Threads : RaceStore(t)
    \/ \E t \in Threads : RaceRead(t)
    \/ \E t \in Threads : RaceLabel(t)
    \/ \E t \in Threads : RaceAutoflush(t)
    \/ \E t \in Threads : RaceExecute(t)
    \/ \E t \in Threads : RaceReturn(t)

SpecEvict == Init /\ [][NextEvict]_vars

\* The bakes of one caller over pipelines with two subquery loaders side by
\* side and with a loader inside a loader.  A call is entered while the
\* statements its bake makes (BakeStmts) are still to be had, so that no
\* bound stops a bake that has begun.
\* The cache keys of the subquery loaders found under the query q, baked
\* under the key key, and under the queries of those loaders.
RECURSIVE DiscoveredKeys(_, _)
DiscoveredKeys(q, key) ==
    UNION {{NestedKey(key, CompiledAttributes(q)[i].k)}
           \cup DiscoveredKeys(CompiledAttributes(q)[i].v,
                               NestedKey(key, CompiledAttributes(q)[i].k)) :
           i \in 1..Len(CompiledAttributes(q))}

\* The statements a bake of the BakedQuery o makes: that of its query and
\* one for each loader found.
BakeStmts(o, session) ==
    1 + Cardinality(DiscoveredKeys(AsQuery(Steps(o), session), bqs[o].key))

BakeCalls == {<<"fSubq2", <<>>>>, <<"fSubqChain", <<>>>>}
BakeCaller == 1

NextBake ==
    \/ \E c \in RunSeeds :
          Len(bqs) < MaxRunCreates /\ Create(c[1], c[2], LocalBakery)
    \/ \E o \in Objs, c \in BakeCalls :
          /\ Len(Steps(o)) < MaxRunSteps
          /\ \A t \in Threads : calls[t].pc = "idle"
          /\ AddCriteria(o, c[1], c[2])
    \/ \E o \in Objs :
          /\ Len(stmts) + BakeStmts(o, SessionOf(BakeCaller)) <= MaxStmts
          /\ RaceCall(BakeCaller, o, SessionOf(BakeCaller))
    \/ RaceLookup(BakeCaller)
    \/ \E labels \in BOOLEAN, fail \in BOOLEAN :
          RaceCompile(BakeCaller, labels, fail)
    \/ \E fail \in BOOLEAN : RaceBakeNested(BakeCaller, fail)
    \/ RaceStoreNested(BakeCaller)
    \/ RaceStore(BakeCaller)
    \/ RaceRead(BakeCaller)
    \/ RaceLabel(BakeCaller)
    \/ RaceAutoflush(BakeCaller)
    \/ RaceExecute(BakeCaller)
    \/ RaceReturn(BakeCaller)

\* The statements of _bake and of _bake_subquery_loaders that did not raise:
\* the caller's thread runs on, so a bake that can take its next statement
\* takes it.
BakeStep ==
    \/ \E labels \in BOOLEAN : RaceCompile(BakeCaller, labels, FALSE)
    \/ RaceBakeNested(BakeCaller, FALSE)
    \/ RaceStoreNested(BakeCaller)
    \/ RaceStore(BakeCaller)

SpecBake == Init /\ [][NextBake]_vars /\ WF_vars(BakeStep)

-----------------------------------------------------------------------------
(* Properties of the cache key and of building (checked under SpecKey).     *)

\* The ordered (step identity, discriminator args) sequence the object o was
\* built from, the identity of a step being its token.
Pipeline(o) ==
    [i \in 1..Len(hist[o]) |-> <<Token(hist[o][i][1]), hist[o][i][2]>>]

RECURSIVE Flatten(_)
\* token ++ args of every element of a sequence of <<token, args>>, in order
Flatten(p) ==
    IF p = <<>> THEN <<>> ELSE p[1][1] \o p[1][2] \o Flatten(Tail(p))

\* C1: two BakedQuery objects built through the constructor, add_criteria
\* and with_criteria from identical ordered sequences of (step identity,
\* discriminator args) have equal cache keys, whatever session was attached
\* and whatever parameter was bound since.
C1_SamePipelineSameKey ==
    \A o \in Objs, p \in Objs :
        Pipeline(o) = Pipeline(p) => bqs[o].key = bqs[p].key

\* Two different objects with one pipeline of two steps or more, a Result of
\* one of them holding a session and a bound parameter.
C1_Witness ==
    /\ Len(bqs) = 2
    /\ Pipeline(1) = Pipeline(2)
    /\ Len(hist[1]) >= 2
    /\ bqs[1].steps # bqs[2].steps
    /\ results # <<>>
    /\ results[1].params # EmptyMap
    /\ bqs[1].key = bqs[2].key

\* C2: two BakedQuery objects whose (step identity, discriminator args)
\* sequences differ in the order of the steps, in the discriminators of a
\* step or in the identity of a step have different cache keys.
C2_DifferentPipelineDifferentKey ==
    \A o \in Objs, p \in Objs :
        Pipeline(o) # Pipeline(p) => bqs[o].key # bqs[p].key

\* The key of a pipeline as BakedQuery builds it: the constructor's args,
\* the token of the initial step, then token ++ args of every later step.
ExpectedKey(p) == p[1][2] \o p[1][1] \o Flatten(Tail(p))

\* C3 (as amended): the cache key is the constructor's extra args, then the
\* initial step's token (file name, first line number), then for every later
\* step in order its token followed by its args; a newly created BakedQuery
\* has steps = [initial step], spoiled = false, and the cache given or else
\* the class-level default cache.
C3_KeyIsArgsThenTokens ==
    /\ [](\A o \in Objs : bqs[o].key = ExpectedKey(Pipeline(o)))
    /\ [][\A c \in KeySeeds, b \in {NoneVal, LocalBakery} :
            Create(c[1], c[2], b) =>
                LET n == bqs'[Len(bqs')]
                IN /\ lists'[n.steps] = <<c[1]>>
                   /\ n.spoiled = FALSE
                   /\ n.bakery = IF b = NoneVal THEN GlobalBakery ELSE b
                   /\ n.key = c[2] \o Token(c[1])]_vars

\* An object made with constructor args and a cache of its own, extended by
\* a step with args.
C3_Witness ==
    \E o \in Objs :
        /\ hist[o][1][2] # <<>>
        /\ bqs[o].bakery = LocalBakery
        /\ Len(hist[o]) >= 2
        /\ hist[o][2][2] # <<>>
        /\ bqs[o].key = ExpectedKey(Pipeline(o))

\* C3 (as stated): the cache key is the concatenation, for every step in
\* pipeline order starting with the initial step, of the step's token
\* followed by the step's own args.
C3_KeyIsTokensThenArgs ==
    \A o \in Objs : bqs[o].key = Flatten(Pipeline(o))

\* C8: add_criteria(step, *args) and += mutate the BakedQuery in place and
\* return the same object: its steps are the previous steps followed by
\* step, its key the previous key followed by the step's token and then
\* args; the cache reference and the spoiled flag are unchanged.
C8_AddCriteriaInPlace ==
    [][lastOp'.op \in {"add_criteria", "iadd"} =>
          LET o == lastOp'.obj
              call == hist'[o][Len(hist'[o])]
          IN /\ lastOp'.ret = o
             /\ Len(bqs') = Len(bqs)
             /\ bqs'[o].steps = bqs[o].steps
             /\ lists'[bqs'[o].steps] = Append(Steps(o), call[1])
             /\ bqs'[o].key = bqs[o].key \o Token(call[1]) \o call[2]
             /\ bqs'[o].bakery = bqs[o].bakery
             /\ bqs'[o].spoiled = bqs[o].spoiled]_vars

\* The state after += of a tuple (step, arg, arg) to a spoiled object of two
\* steps with a cache of its own.
C8_Witness ==
    /\ lastOp.op = "iadd"
    /\ lastOp.ret = lastOp.obj
    /\ Len(Steps(lastOp.obj)) = 3
    /\ hist[lastOp.obj][3][2] # <<>>
    /\ bqs[lastOp.obj].spoiled
    /\ bqs[lastOp.obj].bakery = LocalBakery

\* C9: with_criteria(step, *args) and + return a new BakedQuery with the
\* same cache reference and spoiled flag, whose steps and key are the
\* original's extended by the step, and leave the original's steps and key
\* unchanged; a later add_criteria on one object never changes the steps or
\* the key of another.
C9_WithCriteriaForks ==
    /\ [][lastOp'.op \in {"with_criteria", "add"} =>
            LET o == lastOp'.obj
                n == lastOp'.ret
                call == hist'[n][Len(hist'[n])]
            IN /\ n = Len(bqs) + 1
               /\ Len(bqs') = n
               /\ bqs'[n].bakery = bqs[o].bakery
               /\ bqs'[n].spoiled = bqs[o].spoiled
               /\ lists'[bqs'[n].steps] = Append(Steps(o), call[1])
               /\ bqs'[n].key = bqs[o].key \o Token(call[1]) \o call[2]
               /\ bqs'[o] = bqs[o]
               /\ lists'[bqs'[o].steps] = Steps(o)]_vars
    /\ [][lastOp'.op \in {"add_criteria", "iadd"} =>
            \A p \in Objs \ {lastOp'.obj} :
                /\ bqs'[p] = bqs[p]
                /\ lists'[bqs'[p].steps] = Steps(p)]_vars

\* The state after an add_criteria on the original of a fork made by
\* with_criteria from a spoiled object: the fork has the steps and the key
\* it was made with.
C9_Witness ==
    /\ Len(bqs) = 2
    /\ lastOp.op = "add_criteria"
    /\ lastOp.obj = 1
    /\ bqs[2].spoiled
    /\ bqs[1].bakery = bqs[2].bakery
    /\ Len(Steps(1)) = 3
    /\ Len(Steps(2)) = 2
    /\ Steps(2)[1] = Steps(1)[1]
    /\ SubSeq(bqs[2].key, 1, Len(InitialKey(hist[1][1][1], hist[1][1][2])))
           = InitialKey(hist[1][1][1], hist[1][1][2])

-----------------------------------------------------------------------------
(* Properties of iteration and of spoiling (checked under Spec).            *)

\* The calls that iterate a Result.
IterOps == {"iter", "all", "one", "first", "load_on_ident"}

\* C4: for a non-spoiled BakedQuery and a cache that does not evict, the
\* pipeline is resolved and compiled only by the iteration that misses:
\* an entry of the cache stays, as it was compiled; after an iteration the
\* entry under the iterated key is there; and every iteration that comes
\* when the entry is there finds it, invokes no step function, compiles
\* nothing and stores nothing.
C4_CompiledOnce ==
    /\ [][\A c \in CacheNames : ~Evicts(c) =>
            \A k \in DOMAIN bakery[c].map :
                /\ k \in DOMAIN bakery'[c].map
                /\ [bakery'[c].map[k] EXCEPT !.statement.use_labels = TRUE]
                     = [bakery[c].map[k] EXCEPT !.statement.use_labels = TRUE]]_vars
    /\ [][(/\ lastOp'.op \in IterOps
           /\ ~bqs[lastOp'.obj].spoiled
           /\ ~Evicts(bqs[lastOp'.obj].bakery)) =>
            LET c == bqs[lastOp'.obj].bakery
                k == lastOp'.key
            IN /\ k \in DOMAIN bakery'[c].map
               /\ IF k \in DOMAIN bakery[c].map
                  THEN /\ lastOp'.hit
                       /\ lastOp'.invoked = <<>>
                       /\ lastOp'.compiles = 0
                       /\ lastOp'.writes = 0
                  ELSE /\ ~lastOp'.hit
                       /\ lastOp'.compiles >= 1
                       /\ lastOp'.invoked # <<>>]_vars

\* An iteration on the second session, with a parameter bound, that found
\* the entry in a cache holding two entries.
C4_Witness ==
    /\ lastOp.op \in IterOps
    /\ lastOp.hit
    /\ lastOp.invoked = <<>>
    /\ ~bqs[lastOp.obj].spoiled
    /\ ~Evicts(bqs[lastOp.obj].bakery)
    /\ Cardinality(DOMAIN bakery[bqs[lastOp.obj].bakery].map) = 2
    /\ results[lastOp.res].session = "s2"
    /\ results[lastOp.res].params # EmptyMap
    /\ lastOp.rows # <<>>

\* C6: every iteration of a spoiled BakedQuery (directly or through all,
\* one, first or the identity lookup) bypasses the cache: it reads no cache
\* entry, writes none, and runs the whole pipeline from the initial step,
\* each step once in pipeline order, on every call.
C6_SpoiledBypassesCache ==
    [][(lastOp'.op \in IterOps /\ bqs[lastOp'.obj].spoiled) =>
          LET o == lastOp'.obj
              n == Len(Steps(o))
              inv == lastOp'.invoked
              forked == lastOp'.op \in {"first", "load_on_ident"}
          IN /\ lastOp'.reads = 0
             /\ lastOp'.writes = 0
             /\ ~lastOp'.hit
             /\ bakery' = bakery
             /\ Len(inv) = IF forked THEN n + 1 ELSE n
             /\ SubSeq(inv, 1, n) = Steps(o)
             /\ forked => inv[n + 1] \in {"firstSlice", "setupEq", "setupNull"}]_vars

\* first() on a spoiled BakedQuery of two steps whose key has an entry in
\* its cache.
C6_Witness ==
    /\ lastOp.op = "first"
    /\ bqs[lastOp.obj].spoiled
    /\ Len(lastOp.invoked) = 3
    /\ lastOp.reads = 0
    /\ CacheHas(bakery[bqs[lastOp.obj].bakery], bqs[lastOp.obj].key)

\* C7: once spoiled is true no operation sets it back to false, and spoil()
\* changes only the spoiled flag: the steps, the cache key, the cache
\* reference and every cache entry are as before.
C7_SpoilIsForever ==
    /\ [][\A o \in Objs : bqs[o].spoiled => bqs'[o].spoiled]_vars
    /\ [][lastOp'.op = "spoil" =>
            /\ bqs' = [bqs EXCEPT ![lastOp'.obj].spoiled = TRUE]
            /\ lists' = lists
            /\ bakery' = bakery
            /\ lastOp'.ret = lastOp'.obj]_vars

\* spoil() on an already spoiled BakedQuery of two steps whose key has an
\* entry in its cache.
C7_Witness ==
    /\ lastOp.op = "spoil"
    /\ bqs[lastOp.obj].spoiled
    /\ Len(Steps(lastOp.obj)) >= 2
    /\ CacheHas(bakery[bqs[lastOp.obj].bakery], bqs[lastOp.obj].key)
    /\ \E p \in Objs \ {lastOp.obj} : ~bqs[p].spoiled

-----------------------------------------------------------------------------
(* Properties of the rows (checked under SpecBranch).                       *)

\* The rows of running the whole pipeline of o afresh for the Result r.
FreshRows(o, r) ==
    ExecRows(AsQuery(Steps(o), results[r].session).ops, results[r].session,
             results[r].params)

\* C5: iterating a BakedQuery through the cache, on a miss or on a hit,
\* gives the rows that running its whole pipeline afresh gives on the same
\* session with the same parameters.
C5_CachedRowsAreFreshRows ==
    (lastOp.op \in {"iter", "all", "one"} /\ lastOp.exc = NoneVal) =>
        lastOp.rows = FreshRows(lastOp.obj, lastOp.res)

\* o and p are forks of one base that go on with steps excluding each other.
Exclusive(o, p) ==
    /\ Len(hist[o]) = Len(hist[p])
    /\ Len(hist[o]) >= 2
    /\ SubSeq(hist[o], 1, Len(hist[o]) - 1) = SubSeq(hist[p], 1, Len(hist[p]) - 1)
    /\ hist[o][Len(hist[o])][1] = "closureA"
    /\ hist[p][Len(hist[p])][1] = "closureB"

\* C10: two BakedQuerys cloned from one base and extended with steps that
\* exclude each other never share a cache entry, and each of them, run any
\* number of times in any order, returns the rows of its own pipeline.
C10_BranchesKeepApart ==
    /\ \A o \in Objs, p \in Objs :
           Exclusive(o, p) =>
               ~(bqs[o].bakery = bqs[p].bakery /\ bqs[o].key = bqs[p].key)
    /\ (/\ lastOp.op \in {"iter", "all", "one"}
        /\ \E p \in Objs : Exclusive(lastOp.obj, p) \/ Exclusive(p, lastOp.obj))
           => lastOp.rows = FreshRows(lastOp.obj, lastOp.res)

-----------------------------------------------------------------------------
(* Properties of the stored plans and of callers that iterate at the same   *)
(* time (checked under SpecRace).                                           *)

\* The plans the caches hold.
StoredPlans ==
    UNION {{bakery[c].map[k] : k \in DOMAIN bakery[c].map} : c \in CacheNames}

\* C11: a compiled plan is immutable once stored: whatever callers iterate,
\* on whatever sessions and however interleaved, the stored plan and what
\* it shares with the copies (its statement) have the values they had when
\* the plan was stored.
C11_StoredPlanUnchanged ==
    \A c \in CacheNames : \A k \in DOMAIN bakery[c].map :
        \E p \in {bakery[c].map[k]} :
        /\ stmts[p.statement].use_labels = stmts[p.statement].at_store
        /\ p.session = NoneVal
        /\ p.attributes = <<>>

\* The key of the BakedQuery the caller t iterates, and its cache.
KeyOf(t) == bqs[calls[t].bq].key
CacheOf(t) == bqs[calls[t].bq].bakery

\* C12: when several callers iterate non-spoiled BakedQuerys with one cache
\* key at the same time while the key is absent, more than one may compile,
\* but the cache holds one entry for the key, the last writer's; every
\* caller goes on with a fully built plan and gets the rows of the pipeline
\* on its session, and none fails because of the race.
C12_LastWriterWins ==
    /\ [](\A t \in Threads :
            /\ calls[t].exc # "KeyError"
            /\ calls[t].pc \in {"read", "label", "exec", "done"} =>
                   CacheHas(bakery[CacheOf(t)], KeyOf(t))
            /\ calls[t].pc \in {"label", "exec", "done"} =>
                   LET q == AsQuery(Steps(calls[t].bq), calls[t].session)
                       c == calls[t].context
                   IN /\ stmts[c.statement].ops = q.ops
                      /\ c.session = calls[t].session
                      /\ Len(c.baked_queries) = Len(CompiledAttributes(q))
                      /\ Len(c.attributes) = Len(CompiledAttributes(q))
                      /\ \A i \in 1..Len(c.baked_queries) :
                             c.baked_queries[i].cache_key
                                 = KeyOf(t) \o CompiledAttributes(q)[i].k
            /\ calls[t].pc = "done" =>
                   calls[t].rows = ExecRows(AsQuery(Steps(calls[t].bq),
                                                    calls[t].session).ops,
                                            calls[t].session, EmptyMap))
    /\ [][\A t \in Threads :
            (calls[t].pc = "nested" /\ calls'[t].pc = "read") =>
                bakery'[CacheOf(t)].map[KeyOf(t)].statement
                    = calls[t].context.statement]_vars

\* Both callers missed and compiled, both have their rows: the first went
\* on with its own plan, the cache holds the plan of the second.
C12_Witness ==
    /\ calls[1].pc = "done" /\ calls[2].pc = "done"
    /\ calls[1].miss /\ calls[2].miss
    /\ calls[1].bq = calls[2].bq
    /\ Len(Steps(calls[1].bq)) = 2
    /\ calls[1].context.statement # calls[2].context.statement
    /\ bakery[CacheOf(1)].map[KeyOf(1)].statement = calls[2].context.statement
    /\ calls[1].exc = NoneVal /\ calls[2].exc = NoneVal

\* C13: when _bake fails at any point (a step raises, the compilation
\* raises, baking a nested subquery loader raises) the call leaves no entry
\* behind in a cache, neither under the key of the query nor one written on
\* the way for the plan that was never finished.
C13_FailedBakeLeavesNothing ==
    \A t \in Threads :
        (calls[t].pc = "failed" /\ calls[t].exc = "Error") =>
            \A w \in calls[t].wrote : ~CacheHas(bakery[w[1]], w[2])

\* C14: every plan held in a cache is session-agnostic: its session
\* reference is cleared and its query is detached from any session, from
\* the moment it is stored on; an iteration sets its session on its own
\* copy only.
C14_StoredPlansHaveNoSession ==
    /\ \A p \in StoredPlans : p.session = NoneVal /\ p.query.session = NoneVal
    /\ \A t \in Threads :
           calls[t].pc \in {"label", "exec", "done"} =>
               calls[t].context.session = calls[t].session

\* A caller holds its copy of a stored plan, with its session, while the
\* caches hold the plan and the plans of its two subquery loaders.
C14_Witness ==
    /\ calls[2].pc = "exec"
    /\ ~calls[2].miss
    /\ calls[2].context.session = "s2"
    /\ Len(calls[2].context.baked_queries) = 2
    /\ Cardinality(StoredPlans) >= 2

-----------------------------------------------------------------------------
(* Properties of the Result operations (checked under SpecResult).          *)

ResultOps == {"for_session", "params", "release", "iter", "all", "one",
              "first", "load_on_ident", "get"}

\* The operations of the query the steps of o give.
OpsOf(o) == [i \in 1..Len(Steps(o)) |-> FnOp(Steps(o)[i])]

\* C15: no Result operation changes the BakedQuery it wraps: over a step of
\* for_session, params, iteration, all, one, first, identity lookup or get,
\* every BakedQuery keeps its steps, its cache key and its spoiled flag, and
\* no list of steps changes; first() and the identity lookup work under the
\* key of a fork, the key of the BakedQuery extended by their step.
C15_ResultLeavesBakedQuery ==
    [][lastOp'.op \in ResultOps =>
         /\ bqs' = bqs
         /\ lists' = lists
         /\ (lastOp'.op = "first" =>
                lastOp'.key = UpdateCacheKey(bqs[lastOp'.obj].key, "firstSlice", <<>>))
         /\ (lastOp'.op \in {"load_on_ident", "get"} /\ lastOp'.key # <<>> =>
                /\ Len(lastOp'.key) = Len(bqs[lastOp'.obj].key) + 3
                /\ SubSeq(lastOp'.key, 1, Len(bqs[lastOp'.obj].key))
                       = bqs[lastOp'.obj].key)]_vars

\* first() has compiled and stored the plan of its fork, under a key that
\* is not the key of the BakedQuery, which has its two steps.
C15_Witness ==
    /\ lastOp.op = "first"
    /\ lastOp.compiles = 1
    /\ lastOp.writes = 1
    /\ Len(Steps(lastOp.obj)) = 2
    /\ Len(lastOp.invoked) = 3
    /\ lastOp.key # bqs[lastOp.obj].key

\* C16: one() runs the whole iteration and gives the row when there is
\* exactly one, raises NoResultFound when there is none and
\* MultipleResultsFound when there are more.
C16_OneRowOrRaise ==
    (lastOp.op = "one" /\ lastOp.exc \notin {"StatementError", "KeyError"}) =>
        \E ret \in {ExecRows(OpsOf(lastOp.obj), results[lastOp.res].session,
                             results[lastOp.res].params)} :
            /\ lastOp.rows = ret
            /\ Len(ret) = 1 => lastOp.val = ret[1] /\ lastOp.exc = NoneVal
            /\ Len(ret) = 0 => lastOp.exc = "NoResultFound"
            /\ Len(ret) > 1 => lastOp.exc = "MultipleResultsFound"

\* one() found no row, the plan coming from the cache.
C16_Witness ==
    /\ lastOp.op = "one"
    /\ lastOp.hit
    /\ lastOp.rows = <<>>
    /\ lastOp.exc = "NoResultFound"

\* C17: first() runs a fork of the pipeline with the step that limits to
\* the first row added, with the parameters the Result has, and gives the
\* first row of the pipeline when there is one and None when there is none;
\* it does not raise for no row.
C17_FirstRowOrNone ==
    lastOp.op = "first" =>
        \E s \in {results[lastOp.res].session} :
        \E all \in {ExecRows(OpsOf(lastOp.obj), s, results[lastOp.res].params)} :
            /\ lastOp.key = bqs[lastOp.obj].key \o Token("firstSlice")
            /\ lastOp.exc = ExecExc(OpsOf(lastOp.obj), results[lastOp.res].params)
            /\ lastOp.rows = ExecRows(Append(OpsOf(lastOp.obj), "slice01"), s,
                                      results[lastOp.res].params)
            /\ lastOp.val = IF all = <<>> THEN 0 ELSE all[1]

\* first() on a pipeline that filters by the bound parameter found no row
\* and gave None without raising.
C17_Witness ==
    /\ lastOp.op = "first"
    /\ Contains(Steps(lastOp.obj), "fById")
    /\ "id" \in DOMAIN results[lastOp.res].params
    /\ lastOp.rows = <<>>
    /\ lastOp.val = 0
    /\ lastOp.exc = NoneVal

\* An identity lookup that ran its query.
Lookup == lastOp.op \in {"load_on_ident", "get"} /\ lastOp.key # <<>>

\* The rows of the pipeline of o narrowed to the identity ident on s.
IdentRows(o, ident, s) ==
    ExecRows(Append(OpsOf(o), FnOp(SetupFn(ident))), s, IdentParams(ident))

\* C18: the identity lookup works under the key of the BakedQuery extended
\* by the lookup step and by one flag per primary key column saying whether
\* the value given is None; identities that differ in which values are None
\* have different keys and never get each other's plan: each gets the rows
\* of its own criterion (= for a value, IS NULL for None).
C18_NullFlagsInKey ==
    /\ \A i1 \in Idents, i2 \in Idents :
           (Len(i1) = Len(i2) /\ IdentIsNone(i1) # IdentIsNone(i2)) =>
               NullFlags(i1) # NullFlags(i2)
    /\ Lookup =>
           /\ lastOp.key = bqs[lastOp.obj].key \o <<"s:baked.py", "i:230">>
                               \o <<NullFlags(lastOp.ident)>>
           /\ lastOp.exc \notin {"StatementError", "KeyError"} =>
                  lastOp.rows = IdentRows(lastOp.obj, lastOp.ident,
                                          results[lastOp.res].session)
           /\ \A c \in CacheNames :
                  CacheHas(bakery[c], lastOp.key) =>
                      \E ops \in {CacheGet(bakery[c], lastOp.key).statement.ops} :
                          ops[Len(ops)] = FnOp(SetupFn(lastOp.ident))

\* get((7, 1)) found its row through the plan with two = criteria while the
\* cache also holds the plan of the lookups with None in the second place.
C18_Witness ==
    /\ lastOp.op = "get"
    /\ lastOp.ident = <<7, 1>>
    /\ lastOp.hit
    /\ lastOp.rows = <<701>>
    /\ \E c \in CacheNames :
           /\ CacheHas(bakery[c], lastOp.key)
           /\ CacheHas(bakery[c], bqs[lastOp.obj].key
                           \o <<"s:baked.py", "i:230", "o:(False, True)">>)

\* C19 as stated: the identity lookup binds one parameter per identity
\* value that is not None, under the parameter key of its column, and none
\* for a column whose value is None.
C19_BindsNonNullOnly ==
    Lookup =>
        /\ DOMAIN lastOp.bound
               = {PkParamOf(i) : i \in {n \in 1..Len(lastOp.ident) :
                                            lastOp.ident[n] # 0}}
        /\ \A k \in DOMAIN lastOp.bound :
               lastOp.bound[k] = lastOp.ident[PkIndex(k)]

\* C19 as the code has it: the identity lookup binds one parameter per
\* primary key column, under the parameter key of the column, to the value
\* given for it, None included.
C19_BindsEveryColumn ==
    Lookup =>
        /\ DOMAIN lastOp.bound = {PkParamOf(i) : i \in 1..Len(lastOp.ident)}
        /\ \A i \in 1..Len(lastOp.ident) :
               lastOp.bound[PkParamOf(i)] = lastOp.ident[i]

\* The lookup of (10, None) found chuck, with None bound for the second
\* column.
C19_Witness ==
    /\ Lookup
    /\ lastOp.ident = <<10, 0>>
    /\ lastOp.val = 1000
    /\ "pk_2" \in DOMAIN lastOp.bound
    /\ lastOp.bound["pk_2"] = 0

\* C20: the identity lookup gives the entity when exactly one row matches,
\* None when no row matches, and raises MultipleResultsFound when more than
\* one row matches.
C20_IdentOneNoneOrRaise ==
    (Lookup /\ lastOp.exc \notin {"StatementError", "KeyError"}) =>
        \E result \in {IdentRows(lastOp.obj, lastOp.ident,
                                 results[lastOp.res].session)} :
            /\ Len(result) = 1 => lastOp.val = result[1] /\ lastOp.exc = NoneVal
            /\ Len(result) = 0 => lastOp.val = 0 /\ lastOp.exc = NoneVal
            /\ Len(result) > 1 => lastOp.exc = "MultipleResultsFound"

\* get((8, 2)) on the session where two rows have this key.
C20_Witness ==
    /\ lastOp.op = "get"
    /\ lastOp.ident = <<8, 2>>
    /\ Len(lastOp.rows) = 2
    /\ lastOp.exc = "MultipleResultsFound"

-----------------------------------------------------------------------------
(* Properties of Result.params (checked under SpecParams).                  *)

\* C21: the parameters of a Result start empty and params() merges into
\* them: after a call every key it gave has the value it gave, every other
\* key keeps its value, merging the same mapping again changes nothing, and
\* the call returns the Result it was called on, which stays with its
\* BakedQuery and session.
C21_ParamsMerge ==
    [][/\ \A o \in Objs, s \in Sessions :
            ForSession(o, s) => results'[lastOp'.ret].params = EmptyMap
       /\ \A r \in Results, kw \in ParamKws, args \in ParamArgs :
            (Len(args) <= 1 /\ Params(r, args, kw)) =>
                \E given \in {IF Len(args) = 1
                              THEN [k \in DOMAIN kw \cup DOMAIN args[1] |->
                                      IF k \in DOMAIN args[1] THEN args[1][k]
                                      ELSE kw[k]]
                              ELSE kw} :
                \E old \in {results[r].params}, new \in {results'[r].params} :
                    /\ DOMAIN new = DOMAIN old \cup DOMAIN given
                    /\ \A k \in DOMAIN given : new[k] = given[k]
                    /\ \A k \in DOMAIN old \ DOMAIN given : new[k] = old[k]
                    /\ DictUpdate(new, given) = new
                    /\ lastOp'.ret = r
                    /\ lastOp'.exc = NoneVal
                    /\ Len(results') = Len(results)
                    /\ results'[r].bq = results[r].bq
                    /\ results'[r].session = results[r].session]_vars

\* A Result holds two keys, which no single keyword call gives: params()
\* was called more than once, or with a dict and a keyword of another key.
C21_Witness ==
    /\ lastOp.op = "params"
    /\ lastOp.ret \in Results
    /\ DOMAIN results[lastOp.ret].params = {"id", "name"}
    /\ results[lastOp.ret].params["id"] = 8
    /\ results[lastOp.ret].params["name"] = 8

\* C22: params() with more than one positional argument raises
\* ArgumentError and leaves the parameters of the Result as they were,
\* whatever keyword arguments came with the call.
C22_ParamsArgumentError ==
    [][\A r \in Results, kw \in ParamKws, args \in ParamArgs :
          (Len(args) > 1 /\ Params(r, args, kw)) =>
              /\ lastOp'.exc = "ArgumentError"
              /\ results' = results]_vars

\* The call raised on a Result that holds parameters.
C22_Witness ==
    /\ lastOp.op = "params"
    /\ lastOp.exc = "ArgumentError"
    /\ \E r \in Results : DOMAIN results[r].params = {"id", "name"}

-----------------------------------------------------------------------------
(* Properties of the baked lazy load (checked under SpecLazy).              *)

\* What makes _emit_lazyload spoil its BakedQuery.
LazySpoils(lz) == ~lz.bake_queries \/ lz.load_path \/ lz.load_options

\* C23: a lazy load of a relationship with bake_queries off, or whose
\* owning state has a load path or load options, runs its BakedQuery
\* spoiled: on the general path and on the get path alike it reads no entry
\* of the mapper's cache and writes none, and the cache is after the load
\* what it was before.
C23_LazySpoiledLeavesCache ==
    /\ []((lastOp.op = "lazyload" /\ LazySpoils(lastOp.lazy)) =>
             /\ lastOp.reads = 0
             /\ lastOp.writes = 0
             /\ ~lastOp.hit)
    /\ [][(lastOp'.op = "lazyload" /\ LazySpoils(lastOp'.lazy)) =>
             bakery' = bakery]_vars

\* A lazy load by get of a relationship that bakes, for a state with load
\* options, found its row while the cache holds plans.
C23_Witness ==
    /\ lastOp.op = "lazyload"
    /\ lastOp.lazy.use_get
    /\ lastOp.lazy.bake_queries
    /\ lastOp.lazy.load_options
    /\ lastOp.val = 1
    /\ lastOp.compiles = 1
    /\ DOMAIN bakery[LocalBakery].map # {}

-----------------------------------------------------------------------------
(* Properties of DefaultEngineStrategy.create (checked under SpecEngine).   *)

\* C25: create, given keywords that the dialect, the DBAPI, the pool or the
\* engine constructor all consume, returns the new Engine; given a keyword
\* that none consumes, it raises TypeError naming the keywords left over
\* and returns no engine.
C25_CreateReturnsEngineOrTypeError ==
    lastOp.op = "create_engine" =>
        IF Leftover(DOMAIN lastOp.bound) = {}
        THEN lastOp.exc = NoneVal /\ lastOp.val = 1
        ELSE /\ lastOp.exc = "TypeError"
             /\ lastOp.names = Leftover(DOMAIN lastOp.bound)
             /\ lastOp.val = 0

-----------------------------------------------------------------------------
(* Properties of the subquery eager loaders of a plan.                      *)

\* The subquery eager loaders that the compilation of the stored plan p
\* left in its attributes.
LoadersOf(p) == CompiledAttributes(p.query)

\* C26: once a plan is stored, for every subquery eager loader that its
\* compilation left in the attributes the plan carries a tuple (path key,
\* nested cache key, original query), the nested key being the key of the
\* parent followed by the path key and the query being the one the
\* compilation made, on the session of the compilation; a plan of the nested
\* query was baked under each nested key; and the attributes of the stored
\* plan hold no nested query any more.
C26_SubqueryLoadersBaked ==
    /\ \A k \in DOMAIN bakery[LocalBakery].map :
         \E p \in {bakery[LocalBakery].map[k]} :
            /\ p.attributes = <<>>
            /\ Len(p.baked_queries) = Len(LoadersOf(p))
            /\ \A i \in 1..Len(p.baked_queries) :
                  /\ p.baked_queries[i].k = LoadersOf(p)[i].k
                  /\ p.baked_queries[i].cache_key = k \o LoadersOf(p)[i].k
                  /\ \E s \in Sessions :
                        p.baked_queries[i].query
                            = CompiledAttributes(WithSession(p.query, s))[i].v
    /\ \A t \in Threads :
         (calls[t].miss /\ calls[t].pc \in {"read", "label", "exec", "done"}) =>
            \A i \in 1..Len(CompiledAttributes(AsQuery(Steps(calls[t].bq),
                                                      calls[t].session))) :
               <<GlobalBakery,
                 KeyOf(t) \o CompiledAttributes(AsQuery(Steps(calls[t].bq),
                                                        calls[t].session))[i].k>>
                   \in calls[t].wrote
    /\ \A k \in DOMAIN bakery[GlobalBakery].map :
         /\ bakery[GlobalBakery].map[k].query.ops[1] = "nested"
         /\ bakery[GlobalBakery].map[k].baked_queries = <<>>

\* A caller that missed has stored the plan of a query with two subquery
\* eager loaders: the plan carries the two tuples and the plan of the second
\* nested query is in the class-level cache.
C26_Witness ==
    /\ calls[1].miss
    /\ calls[1].pc = "read"
    /\ CacheHas(bakery[LocalBakery], KeyOf(1))
    /\ Len(bakery[LocalBakery].map[KeyOf(1)].baked_queries) = 2
    /\ CacheHas(bakery[GlobalBakery], KeyOf(1) \o SubqueryKey2)

\* C27: in every iteration that is not spoiled, for each tuple the plan
\* carries a Result with the nested cache key, on the session of the
\* iteration and with its parameters, is put under the path key in the
\* attributes of the copy made for the call; the attributes of the stored
\* plan are not touched and never hold a Result.
C27_UnbakeIntoCopyOnly ==
    /\ \A c \in CacheNames : \A k \in DOMAIN bakery[c].map :
           bakery[c].map[k].attributes = <<>>
    /\ (/\ lastOp.op \in {"iter", "all", "one", "first"}
        /\ lastOp.reads = 1
        /\ lastOp.exc # "KeyError") =>
           \E plan \in {CacheGet(bakery[bqs[lastOp.obj].bakery], lastOp.key)} :
              /\ Len(lastOp.ctx) = Len(plan.baked_queries)
              /\ \A i \in 1..Len(plan.baked_queries) :
                    /\ lastOp.ctx[i].k = plan.baked_queries[i].k
                    /\ lastOp.ctx[i].v.key = plan.baked_queries[i].cache_key
                    /\ lastOp.ctx[i].v.session = results[lastOp.res].session
                    /\ lastOp.ctx[i].v.params = results[lastOp.res].params

\* An iteration on s2 with id bound to 7 took the plan from the cache and
\* put the Result of its subquery loader into its copy.
C27_Witness ==
    /\ lastOp.op = "all"
    /\ lastOp.hit
    /\ Len(lastOp.ctx) = 1
    /\ lastOp.ctx[1].k = SubqueryKey
    /\ lastOp.ctx[1].v.session = "s2"
    /\ lastOp.ctx[1].v.params = [k \in {"id"} |-> 7]

\* C28: in an iteration that is not spoiled the session is flushed exactly
\* when the plan read from the cache has autoflush set and populate_existing
\* not set; the flush happens in the step after the plan was read and its
\* statement labelled, and before the statement is executed.
C28_AutoflushWhenEligible ==
    /\ [](\A t \in Threads :
            /\ calls[t].pc \in {"exec", "done"} =>
                   calls[t].flushed = (/\ calls[t].context.autoflush
                                       /\ ~calls[t].context.populate_existing)
            /\ calls[t].pc \notin {"exec", "done"} => ~calls[t].flushed
            /\ calls[t].pc \in {"exec", "done"} =>
                   \E plan \in {CacheGet(bakery[bqs[calls[t].bq].bakery],
                                          bqs[calls[t].bq].key)} :
                      /\ plan.autoflush = calls[t].context.autoflush
                      /\ plan.populate_existing =
                             calls[t].context.populate_existing
                      /\ plan.autoflush =
                             ~Contains(plan.query.ops, "autoflush_off")
                      /\ plan.populate_existing =
                             Contains(plan.query.ops, "populate_existing"))
    /\ [][\A t \in Threads :
            /\ (calls[t].pc # "exec" /\ calls'[t].pc = "exec") =>
                   /\ calls[t].pc = "flush"
                   /\ calls'[t].rows = <<>>
            /\ (~calls[t].flushed /\ calls'[t].flushed) =>
                   /\ calls[t].pc = "flush"
                   /\ calls'[t].pc = "exec"
                   /\ calls[t].context.session = calls[t].session
            /\ calls'[t].pc = "done" => calls[t].pc \in {"exec", "done"}]_vars
C28_Witness ==
    /\ calls[FlushCaller].pc = "done"
    /\ ~calls[FlushCaller].flushed
    /\ calls[FlushCaller].context.autoflush
    /\ calls[FlushCaller].context.populate_existing

\* C29: a bake that has begun ends: it raises, or it reaches the read of
\* the stored plan; and when it has stored the plan, every subquery loader
\* found under the query, directly or under another loader, was baked once
\* and written to the class-level bakery, no loop is left waiting, and the plan holds one tuple per
\* loader of its own.
C29_BakeTerminates ==
    /\ (calls[BakeCaller].pc \in {"compile", "nested"})
          ~> (calls[BakeCaller].pc \in {"failed", "read"})
    /\ [](calls[BakeCaller].pc = "read" /\ calls[BakeCaller].miss =>
            \E b \in {bqs[calls[BakeCaller].bq]} :
            \E keys \in {DiscoveredKeys(AsQuery(Steps(calls[BakeCaller].bq),
                                                calls[BakeCaller].session),
                                        b.key)} :
               /\ calls[BakeCaller].stack = <<>>
               /\ calls[BakeCaller].bakes = Cardinality(keys)
               /\ calls[BakeCaller].wrote =
                      {<<GlobalBakery, k>> : k \in keys}
                      \cup {<<b.bakery, b.key>>}
               /\ CacheHas(bakery[b.bakery], b.key)
               /\ Len(CacheGet(bakery[b.bakery], b.key).baked_queries) =
                      Len(calls[BakeCaller].context.attributes))
C29_Witness ==
    /\ calls[BakeCaller].pc = "read"
    /\ calls[BakeCaller].miss
    /\ calls[BakeCaller].bakes = 2
    /\ Len(calls[BakeCaller].baked) = 1
    /\ Len(calls[BakeCaller].baked[1].query.ops) = 3
    /\ <<GlobalBakery,
          bqs[calls[BakeCaller].bq].key \o SubqueryKey2 \o SubqueryKey3>>
          \in calls[BakeCaller].wrote

\* C30: a BakedQuery made with a bakery of its own keeps all its caching in
\* that bakery: every plan baked in a call on it, the plans of its subquery
\* loaders included, is written to the bakery it was given, and the
\* class-level bakery stays as it was, empty.
C30_IsolatedCacheConfines ==
    (\A o \in Objs : bqs[o].bakery = LocalBakery) =>
        /\ bakery[GlobalBakery] = EmptyCache
        /\ \A t \in Threads : \A w \in calls[t].wrote : w[1] = LocalBakery

\* C31: in an iteration that is not spoiled, the read of the plan under the
\* cache key, after the membership test and the bake on a miss, finds an
\* entry whatever other callers put into the same evicting cache meanwhile:
\* no caller about to read lacks its key, and no call ends in a KeyError.
C31_ReadFindsPlan ==
    \A t \in Threads :
        /\ calls[t].exc # "KeyError"
        /\ calls[t].pc = "read" =>
               CacheHas(bakery[bqs[calls[t].bq].bakery], bqs[calls[t].bq].key)

\* C32: while the class-level bakery has dropped no entry, every cache key
\* in the baked_queries of a stored plan has a plan in the class-level
\* bakery, the cache its loader is restored from; and a plan is first
\* stored under a key only when the plans of its loaders are there already,
\* so that a caller that finds the parent finds its loaders' plans too.
C32_NestedStoredBeforeParent ==
    /\ [](~bakery[GlobalBakery].evicted =>
            \A c \in CacheNames : \A k \in DOMAIN bakery[c].map :
               \A i \in 1..Len(bakery[c].map[k].baked_queries) :
                  CacheHas(bakery[InitialBakery(NoneVal)],
                           bakery[c].map[k].baked_queries[i].cache_key))
    /\ [][\A c \in CacheNames : \A k \in DOMAIN bakery'[c].map :
            (k \notin DOMAIN bakery[c].map /\ ~bakery[GlobalBakery].evicted) =>
               \A i \in 1..Len(bakery'[c].map[k].baked_queries) :
                  CacheHas(bakery[InitialBakery(NoneVal)],
                           bakery'[c].map[k].baked_queries[i].cache_key)]_vars
C32_Witness ==
    /\ ~bakery[GlobalBakery].evicted
    /\ \E t \in Threads :
          /\ calls[t].pc = "label"
          /\ ~calls[t].miss
          /\ \E plan \in {CacheGet(bakery[LocalBakery], bqs[calls[t].bq].key)} :
                /\ Len(plan.baked_queries) = 1
                /\ CacheHas(bakery[GlobalBakery], plan.baked_queries[1].cache_key)

====
